---- MODULE Spec2Model ----
(***************************************************************************)
(* The workflow execution engine of node-banana: the zustand store of      *)
(* src/src/store/workflowStore.ts (nodes, edges, groups, the run flags,    *)
(* history and cost) and its operations executeWorkflow, regenerateNode    *)
(* and stopWorkflow, with the service responses they await.                *)
(*                                                                         *)
(* JavaScript runs one task at a time: a handler runs without interruption *)
(* from the event that starts it (a click, a response) to its next await   *)
(* of an external result.  `active` names the run whose code is running;   *)
(* while it is set, no other handler can start.  An await of an already    *)
(* settled promise (logger.startSession, logger.endSession) resumes in the *)
(* same task's microtask queue and is no point of interleaving.            *)
(***************************************************************************)
EXTENDS Integers, Sequences, FiniteSets, TLC

VARIABLES
  nodes,               \* store.nodes: array of WorkflowNode [id, type, groupId, data]
  edges,               \* store.edges: array of WorkflowEdge [source, target, targetHandle, hasPause]
  groups,              \* store.groups: groupId -> [locked]
  isRunning,           \* store.isRunning
  currentNodeId,       \* store.currentNodeId
  pausedAtNodeId,      \* store.pausedAtNodeId
  globalImageHistory,  \* store.globalImageHistory, newest first
  incurredCost,        \* store.incurredCost
  hasUnsavedChanges,   \* store.hasUnsavedChanges
  now,                 \* Date.now(), a clock that ticks between two generations
  runs,                \* one record per call that passed its isRunning guard: the call's closure
  active,              \* index in runs of the call whose code is running now, 0 when none is
  calls,               \* number of executeWorkflow / regenerateNode calls made so far
  currentSession,      \* logger.currentSession: the id of the open log session, or null
  postedSessions,      \* the ids of the sessions posted to /api/logs, in order
  workflowId,          \* store.workflowId
  workflowName,        \* store.workflowName
  saveDirectoryPath,   \* store.saveDirectoryPath
  isSaving,            \* store.isSaving
  lastSavedAt,         \* store.lastSavedAt: the timestamp of the last successful save, or null
  saveCalls,           \* number of saveToFile calls made so far
  saving,              \* the workflow documents of the /api/workflow requests in flight
  savedFile,           \* the workflow document /api/workflow wrote last
  costData,            \* localStorage["node-banana-workflow-costs"]: one record per workflowId
  generationsPath,     \* store.generationsPath
  generationSaves,     \* the /api/save-generation requests made so far, each pending, saved or failed
  nodeIdCounter,       \* the module's nodeIdCounter
  edits                \* number of canvas edits (add, remove, connect) made so far

logging == <<currentSession, postedSessions>>

canvas == <<nodeIdCounter, edits>>

project == <<workflowId, workflowName, saveDirectoryPath, isSaving, lastSavedAt, saveCalls,
             saving, savedFile, generationsPath>>

persistence == <<project, costData, generationSaves>>

vars == <<nodes, edges, groups, isRunning, currentNodeId, pausedAtNodeId,
          globalImageHistory, incurredCost, hasUnsavedChanges, now, runs, active, calls,
          logging, persistence, canvas>>

store == <<nodes, edges, groups, isRunning, currentNodeId, pausedAtNodeId,
           globalImageHistory, incurredCost, hasUnsavedChanges>>

-----------------------------------------------------------------------------
(* Bounds of the model *)

MaxCalls == 2          \* executeWorkflow / regenerateNode calls per behaviour
MaxPauseEdges == 2     \* edges of a workflow document that carry hasPause
MaxLockedNodes == 1    \* nodes of a workflow document put in the locked group
SortNodes == 3         \* nodes of the graphs the sorter is checked on
SortEdges == 3         \* edges of the graphs the sorter is checked on
MaxInputEdges == 3     \* edges into the node whose inputs are resolved
MaxEdits == 2          \* canvas edits (add, remove, connect) per behaviour
MaxSaves == 3          \* saveToFile calls per behaviour
MaxIncurredCost == 180  \* largest cost total the cost calls are followed to, in tenths of a cent

-----------------------------------------------------------------------------
(* Values *)

NULL == "null"                      \* JavaScript null / undefined

Falsy(v) == v \in {NULL, ""}        \* !v for a string or null

OrElse(v, d) == IF Falsy(v) THEN d ELSE v      \* v || d

Nullish(v, d) == IF v = NULL THEN d ELSE v     \* v ?? d

SeqToSet(s) == {s[k] : k \in DOMAIN s}

RECURSIVE SelectSeqIdx(_, _, _)
\* the indices k >= from of s with s[k] in the set keep, in order
SelectSeqIdx(s, keep, from) ==
  IF from > Len(s) THEN <<>>
  ELSE IF s[from] \in keep THEN <<from>> \o SelectSeqIdx(s, keep, from + 1)
  ELSE SelectSeqIdx(s, keep, from + 1)

-----------------------------------------------------------------------------
(* Graph model *)

\* createDefaultNodeData: the payload of a new node of each kind
CreateDefaultNodeData(type) ==
  CASE type = "imageInput" -> [image |-> NULL, filename |-> NULL]
    [] type = "annotation" -> [sourceImage |-> NULL, annotations |-> <<>>, outputImage |-> NULL]
    [] type = "prompt" -> [prompt |-> ""]
    [] type = "nanoBanana" ->
         [inputImages |-> <<>>, inputPrompt |-> NULL, outputImage |-> NULL,
          resolution |-> "1K", model |-> "nano-banana-pro",
          status |-> "idle", error |-> NULL,
          imageHistory |-> <<>>, selectedHistoryIndex |-> 0]
    [] type = "llmGenerate" ->
         [inputPrompt |-> NULL, inputImages |-> <<>>, outputText |-> NULL,
          status |-> "idle", error |-> NULL]
    [] type = "splitGrid" ->
         [sourceImage |-> NULL, childNodeIds |-> <<>>, gridRows |-> 2, gridCols |-> 3,
          isConfigured |-> FALSE, status |-> "idle", error |-> NULL]
    [] type = "output" -> [image |-> NULL]

\* a WorkflowNode: default payload of its kind overridden by the fields given
MkNode(id, type, fields) ==
  [id |-> id, type |-> type, groupId |-> NULL, data |-> fields @@ CreateDefaultNodeData(type)]

MkEdge(source, target, targetHandle) ==
  [source |-> source, target |-> target, targetHandle |-> targetHandle, hasPause |-> FALSE]

\* nodes.find((n) => n.id === id): index of the first node with this id, 0 when there is none
FindIndex(ns, id) ==
  IF \E k \in DOMAIN ns : ns[k].id = id
  THEN CHOOSE k \in DOMAIN ns : ns[k].id = id /\ \A j \in 1..(k - 1) : ns[j].id # id
  ELSE 0

NodeIds(ns) == {ns[k].id : k \in DOMAIN ns}

\* getNodeById, for an id that is present
GetNodeById(ns, id) == ns[FindIndex(ns, id)]

\* an updateNodeData that puts the patch in place of the data of the named node
UpdateNodeDataReplaced(ns, nodeId, patch) ==
  [k \in DOMAIN ns |-> IF ns[k].id = nodeId THEN [ns[k] EXCEPT !.data = patch] ELSE ns[k]]

\* an updateNodeData that merges the patch into the data of every node
UpdateEveryNodeData(ns, nodeId, patch) ==
  [k \in DOMAIN ns |-> [ns[k] EXCEPT !.data = patch @@ ns[k].data]]

\* updateNodeData: merge the patch into the named node's data, mark the workflow dirty
UpdateNodeData(ns, nodeId, patch) ==
  [k \in DOMAIN ns |->
     IF ns[k].id = nodeId THEN [ns[k] EXCEPT !.data = patch @@ ns[k].data] ELSE ns[k]]

-----------------------------------------------------------------------------
(* Input resolver *)

\* the image a source node offers on an image edge (null when its kind offers none)
SourceImage(sourceNode) ==
  CASE sourceNode.type = "imageInput" -> sourceNode.data.image
    [] sourceNode.type = "annotation" -> sourceNode.data.outputImage
    [] sourceNode.type = "nanoBanana" -> sourceNode.data.outputImage
    [] OTHER -> NULL

\* an edge step with a single image slot: a later image replaces the earlier ones
ResolveEdgeSingleImage(ns, edge, acc) ==
  LET si == FindIndex(ns, edge.source) IN
  IF si = 0 THEN acc
  ELSE
    LET sourceNode == ns[si]
        handleId == edge.targetHandle
        img == SourceImage(sourceNode)
        images1 == IF (handleId = "image" \/ Falsy(handleId)) /\ ~Falsy(img)
                   THEN <<img>> ELSE acc.images
        text1 == IF handleId = "text"
                 THEN CASE sourceNode.type = "prompt" -> sourceNode.data.prompt
                        [] sourceNode.type = "llmGenerate" -> sourceNode.data.outputText
                        [] OTHER -> acc.text
                 ELSE acc.text
    IN [images |-> images1, text |-> text1]

\* an edge step that keeps the first text it finds
ResolveEdgeFirstText(ns, edge, acc) ==
  LET si == FindIndex(ns, edge.source) IN
  IF si = 0 THEN acc
  ELSE
    LET sourceNode == ns[si]
        handleId == edge.targetHandle
        img == SourceImage(sourceNode)
        images1 == IF (handleId = "image" \/ Falsy(handleId)) /\ ~Falsy(img)
                   THEN Append(acc.images, img) ELSE acc.images
        text1 == IF handleId = "text" /\ acc.text = NULL
                 THEN CASE sourceNode.type = "prompt" -> sourceNode.data.prompt
                        [] sourceNode.type = "llmGenerate" -> sourceNode.data.outputText
                        [] OTHER -> acc.text
                 ELSE acc.text
    IN [images |-> images1, text |-> text1]

\* one edge of getConnectedInputs' forEach, applied to the accumulator acc
ResolveEdge(ns, edge, acc) ==
  LET si == FindIndex(ns, edge.source) IN
  IF si = 0 THEN acc
  ELSE
    LET sourceNode == ns[si]
        handleId == edge.targetHandle
        img == SourceImage(sourceNode)
        images1 == IF (handleId = "image" \/ Falsy(handleId)) /\ ~Falsy(img)
                   THEN Append(acc.images, img) ELSE acc.images
        text1 == IF handleId = "text"
                 THEN CASE sourceNode.type = "prompt" -> sourceNode.data.prompt
                        [] sourceNode.type = "llmGenerate" -> sourceNode.data.outputText
                        [] OTHER -> acc.text
                 ELSE acc.text
    IN [images |-> images1, text |-> text1]

RECURSIVE ResolveEdges(_, _, _, _, _)
ResolveEdges(ns, es, nodeId, k, acc) ==
  IF k > Len(es) THEN acc
  ELSE ResolveEdges(ns, es, nodeId, k + 1,
                    IF es[k].target = nodeId THEN ResolveEdge(ns, es[k], acc) ELSE acc)

\* getConnectedInputs(nodeId) on the store's current nodes and edges
GetConnectedInputs(ns, es, nodeId) ==
  ResolveEdges(ns, es, nodeId, 1, [images |-> <<>>, text |-> NULL])

-----------------------------------------------------------------------------
(* Topological sorter: executeWorkflow's visit *)

RECURSIVE Visit(_, _, _, _), VisitAll(_, _, _, _)

\* a sorter that pushes the node before it visits the nodes it depends on
VisitPreOrder(ns, es, st, nodeId) ==
  IF st.thrown THEN st
  ELSE IF nodeId \in st.visited THEN st
  ELSE IF nodeId \in st.visiting THEN [st EXCEPT !.thrown = TRUE]
  ELSE
    LET incoming == SelectSeqIdx(es, {e \in SeqToSet(es) : e.target = nodeId}, 1)
        sources == [k \in DOMAIN incoming |-> es[incoming[k]].source]
        ni == FindIndex(ns, nodeId)
        st0 == [st EXCEPT !.visiting = @ \cup {nodeId},
                          !.sorted = IF ni # 0 THEN Append(@, ns[ni]) ELSE @]
        st1 == VisitAll(ns, es, st0, sources)
    IN IF st1.thrown THEN st1
       ELSE [st1 EXCEPT !.visiting = @ \ {nodeId}, !.visited = @ \cup {nodeId}]

\* visit(nodeId) on the sorter state st = [sorted, visited, visiting, thrown];
\* thrown records the "Cycle detected in workflow" exception, which ends the sort
Visit(ns, es, st, nodeId) ==
  IF st.thrown THEN st
  ELSE IF nodeId \in st.visited THEN st
  ELSE IF nodeId \in st.visiting THEN [st EXCEPT !.thrown = TRUE]
  ELSE
    LET incoming == SelectSeqIdx(es, {e \in SeqToSet(es) : e.target = nodeId}, 1)
        sources == [k \in DOMAIN incoming |-> es[incoming[k]].source]
        st1 == VisitAll(ns, es, [st EXCEPT !.visiting = @ \cup {nodeId}], sources)
        ni == FindIndex(ns, nodeId)
    IN IF st1.thrown THEN st1
       ELSE [st1 EXCEPT !.visiting = @ \ {nodeId},
                        !.visited = @ \cup {nodeId},
                        !.sorted = IF ni # 0 THEN Append(@, ns[ni]) ELSE @]

\* forEach(visit) over a list of node ids
VisitAll(ns, es, st, ids) ==
  IF ids = <<>> THEN st
  ELSE VisitAll(ns, es, Visit(ns, es, st, Head(ids)), Tail(ids))

\* nodes.forEach((node) => visit(node.id)) from the empty sorter state
TopologicalSort(ns, es) ==
  VisitAll(ns, es,
           [sorted |-> <<>>, visited |-> {}, visiting |-> {}, thrown |-> FALSE],
           [k \in DOMAIN ns |-> ns[k].id])

\* iteration from the first position whatever the entry
StartIndexFirst(sorted, startFromNodeId) == 1

\* sorted.findIndex((n) => n.id === startFromNodeId), defaulting to the first position
StartIndex(sorted, startFromNodeId) ==
  IF ~Falsy(startFromNodeId) /\ FindIndex(sorted, startFromNodeId) # 0
  THEN FindIndex(sorted, startFromNodeId)
  ELSE 1

-----------------------------------------------------------------------------
(* Workflow documents the store is loaded with *)

\* a prompt and an image feed a generator whose output, kept from an earlier
\* generation, feeds a second generator
ChainWorkflow(image) ==
  [nodes |-> << MkNode("nanoBanana-2", "nanoBanana", <<>>),
                MkNode("nanoBanana-1", "nanoBanana",
                       [outputImage |-> "kept", status |-> "complete",
                        imageHistory |-> << [id |-> "0", timestamp |-> 0,
                                             prompt |-> "draw a cat",
                                             model |-> "nano-banana-pro"] >>]),
                MkNode("prompt-1", "prompt", [prompt |-> "draw a cat"]),
                MkNode("imageInput-1", "imageInput", [image |-> image]) >>,
   edges |-> << MkEdge("imageInput-1", "nanoBanana-1", "image"),
                MkEdge("prompt-1", "nanoBanana-1", "text"),
                MkEdge("nanoBanana-1", "nanoBanana-2", "image"),
                MkEdge("prompt-1", "nanoBanana-2", "text") >>]

\* a language model writes the prompt of a generator that takes an annotated image
TextWorkflow ==
  [nodes |-> << MkNode("nanoBanana-1", "nanoBanana", <<>>),
                MkNode("llmGenerate-1", "llmGenerate", <<>>),
                MkNode("annotation-1", "annotation", <<>>),
                MkNode("prompt-1", "prompt", [prompt |-> "describe"]),
                MkNode("imageInput-1", "imageInput", [image |-> "photo"]) >>,
   edges |-> << MkEdge("prompt-1", "llmGenerate-1", "text"),
                MkEdge("llmGenerate-1", "nanoBanana-1", "text"),
                MkEdge("imageInput-1", "annotation-1", "image"),
                MkEdge("annotation-1", "nanoBanana-1", "image") >>]

\* a grid split of one cell whose child image source feeds an output node
SplitWorkflow(isConfigured) ==
  [nodes |-> << MkNode("imageInput-1", "imageInput", [image |-> "sheet"]),
                MkNode("splitGrid-1", "splitGrid",
                       [isConfigured |-> isConfigured, gridRows |-> 1, gridCols |-> 1,
                        childNodeIds |-> << [imageInput |-> "imageInput-2"] >>]),
                MkNode("imageInput-2", "imageInput", <<>>),
                MkNode("output-1", "output", <<>>) >>,
   edges |-> << MkEdge("imageInput-1", "splitGrid-1", "image"),
                MkEdge("imageInput-2", "output-1", "image") >>]

\* the chain with one more edge that closes a cycle
CyclicWorkflow(source, target) ==
  [ChainWorkflow("photo") EXCEPT !.edges = Append(@, MkEdge(source, target, "image"))]

BaseWorkflows ==
  {ChainWorkflow(image) : image \in {NULL, "photo"}}
    \cup {TextWorkflow}
    \cup {SplitWorkflow(c) : c \in BOOLEAN}
    \cup {CyclicWorkflow("nanoBanana-2", "nanoBanana-1"),
          CyclicWorkflow("nanoBanana-1", "nanoBanana-1")}

\* the document w with hasPause set on the edges at the indices in paused, the
\* nodes named in locked put in the locked group and the others in the unlocked one
WithPauseAndLock(w, paused, locked) ==
  [nodes |-> [k \in DOMAIN w.nodes |->
                [w.nodes[k] EXCEPT !.groupId =
                   IF w.nodes[k].id \in locked THEN "group-1"
                   ELSE IF w.nodes[k].type = "nanoBanana" THEN "group-2" ELSE NULL]],
   edges |-> [k \in DOMAIN w.edges |-> [w.edges[k] EXCEPT !.hasPause = (k \in paused)]],
   groups |-> [g \in {"group-1", "group-2"} |-> [locked |-> (g = "group-1")]]]

Workflows ==
  {WithPauseAndLock(w, paused, locked) :
     w \in BaseWorkflows,
     paused \in {p \in SUBSET (1..5) : Cardinality(p) <= MaxPauseEdges},
     locked \in {l \in SUBSET {"nanoBanana-1", "imageInput-2", "llmGenerate-1"} :
                   Cardinality(l) <= MaxLockedNodes}}

-----------------------------------------------------------------------------
(* The store after loadWorkflow(w) *)

NodeTypes ==
  {"imageInput", "annotation", "prompt", "nanoBanana", "styleTransfer", "llmGenerate",
   "splitGrid", "output"}

\* loadWorkflow's reduce over node.id.match(/-(\d+)$/): the largest number an id ends with
MaxNodeId(ns) ==
  LET ends == {k \in 0..9 : \E j \in DOMAIN ns : \E type \in NodeTypes :
                              ns[j].id = type \o "-" \o ToString(k)}
  IN CHOOSE k \in ends \cup {0} : \A j \in ends : j <= k

\* loadWorkflowCostData(workflowId)?.incurredCost || 0
LoadWorkflowCostData(allCosts, id) ==
  IF \E d \in allCosts : d.workflowId = id
  THEN (CHOOSE d \in allCosts : d.workflowId = id).incurredCost
  ELSE 0

\* workflow.name of the documents
DocumentName == "chain"

\* Date.now() at clock reading t, as store.lastSavedAt holds it
Timestamp(t) == "at-" \o ToString(t)

\* the store after loadWorkflow(w) of the project id with its save configuration,
\* the stored costs and the workflow file on disk
InitProject(w, id, directoryPath, genPath, costs, file) ==
  /\ nodes = w.nodes
  /\ edges = w.edges
  /\ groups = w.groups
  /\ isRunning = FALSE
  /\ currentNodeId = NULL
  /\ pausedAtNodeId = NULL
  /\ globalImageHistory = <<>>
  /\ incurredCost = LoadWorkflowCostData(costs, id)
  /\ hasUnsavedChanges = FALSE
  /\ now = 1
  /\ runs = <<>>
  /\ active = 0
  /\ calls = 0
  /\ currentSession = NULL
  /\ postedSessions = <<>>
  /\ workflowId = id
  /\ workflowName = (IF id = NULL THEN NULL ELSE DocumentName)
  /\ saveDirectoryPath = directoryPath
  /\ isSaving = FALSE
  /\ lastSavedAt = NULL
  /\ saveCalls = 0
  /\ saving = <<>>
  /\ savedFile = file
  /\ costData = costs
  /\ generationsPath = genPath
  /\ generationSaves = <<>>
  /\ nodeIdCounter = MaxNodeId(w.nodes)
  /\ edits = 0

\* a workflow document loaded with no save configuration and no stored costs
InitStore(w) == InitProject(w, NULL, NULL, NULL, {}, NULL)

Init == \E w \in Workflows : InitStore(w)

-----------------------------------------------------------------------------
(* Run closures *)

\* the closure of a call: what it read from get() when it started, its loop
\* position, and a log of what it has done (executed, wrote, resolved, generated,
\* outcome, stop) and of the pausedAtNodeId it found when it was called
NewRun(op, startFromNodeId, isResuming, sorted, startIndex) ==
  [op |-> op, startFromNodeId |-> startFromNodeId, isResuming |-> isResuming,
   nodes |-> nodes, edges |-> edges, groups |-> groups, sorted |-> sorted,
   startIndex |-> startIndex,
   i |-> startIndex, pc |-> "loop",
   images |-> <<>>, text |-> NULL, splitImages |-> <<>>, index |-> 1,
   executed |-> <<>>, wrote |-> {}, resolved |-> <<>>, generated |-> <<>>, outcome |-> "",
   stopped |-> FALSE, executedAtStop |-> 0, pausedAtCall |-> pausedAtNodeId]

Alive(R) == R.pc # "done"

\* run r waits for the answer to the call it made at pc, and no task is running
Awaits(r, pc) == r \in DOMAIN runs /\ active = 0 /\ runs[r].pc = pc

AtEnd(R) == R.i > Len(R.sorted)

Node(R) == R.sorted[R.i]

Entered(R) == [R EXCEPT !.executed = Append(@, Node(R).id)]

Resolved(R, inputs) ==
  [R EXCEPT !.resolved = Append(@, [id |-> Node(R).id, images |-> inputs.images, text |-> inputs.text])]

Wrote(R, ids) == [R EXCEPT !.wrote = @ \cup ids]

Generated(R) == [R EXCEPT !.generated = Append(@, Node(R).id)]

\* a loop that does not move on to the next position
AdvanceStuck(R) == R

Advance(R) == [R EXCEPT !.i = @ + 1]

Ended(R, outcome) == [R EXCEPT !.pc = "done", !.outcome = outcome]

\* a call that does not look at the run flag
GuardDropped == FALSE

\* if (isRunning) return: the guard of executeWorkflow and of regenerateNode
AlreadyRunning == isRunning

\* const isResuming = startFromNodeId === get().pausedAtNodeId
IsResuming(startFromNodeId) == startFromNodeId # NULL /\ startFromNodeId = pausedAtNodeId

\* a pause check that looks at the first incoming edge only
ShouldPauseFirstEdge(R) ==
  /\ ~(R.isResuming /\ Node(R).id = R.startFromNodeId)
  /\ LET incoming == SelectSeqIdx(R.edges, {e \in SeqToSet(R.edges) : e.target = Node(R).id}, 1)
     IN incoming # <<>> /\ R.edges[incoming[1]].hasPause

\* a pause check that a resumed run skips at every node, not only at its entry
ShouldPauseUnlessResuming(R) ==
  /\ ~R.isResuming
  /\ \E k \in DOMAIN R.edges : R.edges[k].target = Node(R).id /\ R.edges[k].hasPause

\* a pause check that comes after the locked-group check: a locked node never pauses
ShouldPauseUnlessLocked(R) ==
  /\ ~(R.isResuming /\ Node(R).id = R.startFromNodeId)
  /\ \E k \in DOMAIN R.edges : R.edges[k].target = Node(R).id /\ R.edges[k].hasPause
  /\ ~(/\ Node(R).groupId # NULL
       /\ Node(R).groupId \in DOMAIN R.groups
       /\ R.groups[Node(R).groupId].locked)

\* incomingEdges.find((e) => e.data?.hasPause), unless resuming from this exact node
ShouldPause(R) ==
  /\ ~(R.isResuming /\ Node(R).id = R.startFromNodeId)
  /\ \E k \in DOMAIN R.edges : R.edges[k].target = Node(R).id /\ R.edges[k].hasPause

\* nodeGroup?.locked for the node's group in the groups read at run start
InLockedGroup(R) ==
  /\ Node(R).groupId # NULL
  /\ Node(R).groupId \in DOMAIN R.groups
  /\ R.groups[Node(R).groupId].locked

\* the loop has reached a node that it goes on to execute
Executes(r) ==
  /\ active = r
  /\ runs[r].pc = "loop"
  /\ runs[r].op = "executeWorkflow"
  /\ ~AtEnd(runs[r])
  /\ isRunning
  /\ ~ShouldPause(runs[r])
  /\ ~InLockedGroup(runs[r])

-----------------------------------------------------------------------------
(* The logger's session *)

\* generateSessionId, for the session of the call with index r in runs
GenerateSessionId(r) == "session-" \o ToString(r)

\* await logger.endSession(): the open session, if any, is dropped
EndSession ==
  /\ currentSession' = NULL
  /\ UNCHANGED postedSessions

\* const session = logger.getCurrentSession(); if (session) fetch('/api/logs', ...);
\* await logger.endSession()
PostAndEndSession ==
  /\ postedSessions' = IF currentSession # NULL
                       THEN Append(postedSessions, currentSession) ELSE postedSessions
  /\ currentSession' = NULL

-----------------------------------------------------------------------------
(* executeWorkflow: the call, and the loop's control *)

\* executeWorkflow with its sort outside the try block: the cycle's exception
\* leaves the function with the run flag set
ExecuteWorkflowSortUncaught(startFromNodeId) ==
  /\ active = 0
  /\ calls < MaxCalls
  /\ calls' = calls + 1
  /\ IF AlreadyRunning
     THEN UNCHANGED <<store, now, runs, active, logging, persistence, canvas>>
     ELSE LET t == TopologicalSort(nodes, edges)
              R == NewRun("executeWorkflow", startFromNodeId, IsResuming(startFromNodeId),
                          t.sorted, StartIndex(t.sorted, startFromNodeId))
          IN /\ pausedAtNodeId' = NULL
             /\ isRunning' = TRUE
             /\ runs' = Append(runs, IF t.thrown THEN Ended(R, "cycle") ELSE R)
             /\ active' = IF t.thrown THEN 0 ELSE Len(runs) + 1
             /\ currentSession' = GenerateSessionId(Len(runs) + 1)
             /\ UNCHANGED <<nodes, edges, groups, currentNodeId, globalImageHistory,
                            incurredCost, hasUnsavedChanges, now, postedSessions, persistence, canvas>>

\* executeWorkflow(startFromNodeId) up to the first iteration of its loop: the
\* guard, the log session (its id is the call's index in runs), the flags, the
\* topological sort (a cycle throws into the outer catch, which posts the session)
ExecuteWorkflow(startFromNodeId) ==
  /\ active = 0
  /\ calls < MaxCalls
  /\ calls' = calls + 1
  /\ IF AlreadyRunning
     THEN UNCHANGED <<store, now, runs, active, logging, persistence, canvas>>
     ELSE LET t == TopologicalSort(nodes, edges)
              R == NewRun("executeWorkflow", startFromNodeId, IsResuming(startFromNodeId),
                          t.sorted, StartIndex(t.sorted, startFromNodeId))
          IN /\ pausedAtNodeId' = NULL
             /\ currentNodeId' = IF t.thrown THEN NULL ELSE currentNodeId
             /\ isRunning' = ~t.thrown
             /\ runs' = Append(runs, IF t.thrown THEN Ended(R, "cycle") ELSE R)
             /\ active' = IF t.thrown THEN 0 ELSE Len(runs) + 1
             /\ currentSession' = IF t.thrown THEN NULL ELSE GenerateSessionId(Len(runs) + 1)
             /\ postedSessions' = IF t.thrown
                                  THEN Append(postedSessions, GenerateSessionId(Len(runs) + 1))
                                  ELSE postedSessions
             /\ UNCHANGED <<nodes, edges, groups, globalImageHistory, incurredCost,
                            hasUnsavedChanges, now, persistence, canvas>>

\* the loop ends (i reaches sorted.length, or isRunning was found false: break):
\* set({ isRunning: false, currentNodeId: null }), the session is posted and ended
LoopExit(r) ==
  /\ active = r
  /\ runs[r].pc = "loop"
  /\ runs[r].op = "executeWorkflow"
  /\ AtEnd(runs[r]) \/ ~isRunning
  /\ isRunning' = FALSE
  /\ currentNodeId' = NULL
  /\ runs' = [runs EXCEPT ![r] = Ended(@, IF AtEnd(@) THEN "completed" ELSE "stopped")]
  /\ active' = 0
  /\ PostAndEndSession
  /\ UNCHANGED <<nodes, edges, groups, pausedAtNodeId, globalImageHistory, incurredCost,
                 hasUnsavedChanges, now, calls, persistence, canvas>>

\* a pause edge comes into the node:
\* set({ pausedAtNodeId: node.id, isRunning: false, currentNodeId: null }); the
\* session is posted and ended; return
Pause(r) ==
  /\ active = r
  /\ runs[r].pc = "loop"
  /\ runs[r].op = "executeWorkflow"
  /\ ~AtEnd(runs[r])
  /\ isRunning
  /\ ShouldPause(runs[r])
  /\ pausedAtNodeId' = Node(runs[r]).id
  /\ isRunning' = FALSE
  /\ currentNodeId' = NULL
  /\ runs' = [runs EXCEPT ![r] = Ended(@, "paused")]
  /\ active' = 0
  /\ PostAndEndSession
  /\ UNCHANGED <<nodes, edges, groups, globalImageHistory, incurredCost,
                 hasUnsavedChanges, now, calls, persistence, canvas>>

\* the node is in a locked group: continue
SkipLocked(r) ==
  /\ active = r
  /\ runs[r].pc = "loop"
  /\ runs[r].op = "executeWorkflow"
  /\ ~AtEnd(runs[r])
  /\ isRunning
  /\ ~ShouldPause(runs[r])
  /\ InLockedGroup(runs[r])
  /\ runs' = [runs EXCEPT ![r] = Advance(@)]
  /\ UNCHANGED <<store, now, active, calls, logging, persistence, canvas>>

\* case "imageInput", case "prompt": nothing to execute
ExecutePassThrough(r) ==
  /\ Executes(r)
  /\ Node(runs[r]).type \in {"imageInput", "prompt"}
  /\ currentNodeId' = Node(runs[r]).id
  /\ runs' = [runs EXCEPT ![r] = Advance(Entered(@))]
  /\ UNCHANGED <<nodes, edges, groups, isRunning, pausedAtNodeId, globalImageHistory,
                 incurredCost, hasUnsavedChanges, now, active, calls, logging, persistence, canvas>>

\* case "annotation": the first connected image becomes the source, and the output
\* too when the node (as read at run start) carries no output of its own
ExecuteAnnotation(r) ==
  /\ Executes(r)
  /\ Node(runs[r]).type = "annotation"
  /\ LET node == Node(runs[r])
         inputs == GetConnectedInputs(nodes, edges, node.id)
         image == IF inputs.images = <<>> THEN NULL ELSE inputs.images[1]
         patch == IF Falsy(node.data.outputImage)
                  THEN [sourceImage |-> image, outputImage |-> image]
                  ELSE [sourceImage |-> image]
     IN /\ nodes' = IF Falsy(image) THEN nodes ELSE UpdateNodeData(nodes, node.id, patch)
        /\ hasUnsavedChanges' = (hasUnsavedChanges \/ ~Falsy(image))
        /\ runs' = [runs EXCEPT ![r] =
                      Advance(Resolved(Entered(IF Falsy(image) THEN @ ELSE Wrote(@, {node.id})), inputs))]
  /\ currentNodeId' = Node(runs[r]).id
  /\ UNCHANGED <<edges, groups, isRunning, pausedAtNodeId, globalImageHistory,
                 incurredCost, now, active, calls, logging, persistence, canvas>>

\* the node kinds with a case in executeWorkflow's switch (node.type)
SwitchCases ==
  {"imageInput", "annotation", "prompt", "nanoBanana", "llmGenerate", "splitGrid", "output"}

\* a node kind with no case in the switch: the iteration sets currentNodeId, logs,
\* and goes on to the next node
ExecuteUnhandled(r) ==
  /\ Executes(r)
  /\ Node(runs[r]).type \notin SwitchCases
  /\ currentNodeId' = Node(runs[r]).id
  /\ runs' = [runs EXCEPT ![r] = Advance(Entered(@))]
  /\ UNCHANGED <<nodes, edges, groups, isRunning, pausedAtNodeId, globalImageHistory,
                 incurredCost, hasUnsavedChanges, now, active, calls, logging, persistence, canvas>>

\* case "output": stores the first connected image
ExecuteOutput(r) ==
  /\ Executes(r)
  /\ Node(runs[r]).type = "output"
  /\ LET node == Node(runs[r])
         inputs == GetConnectedInputs(nodes, edges, node.id)
         image == IF inputs.images = <<>> THEN NULL ELSE inputs.images[1]
     IN /\ nodes' = IF Falsy(image) THEN nodes
                    ELSE UpdateNodeData(nodes, node.id, [image |-> image])
        /\ hasUnsavedChanges' = (hasUnsavedChanges \/ ~Falsy(image))
        /\ runs' = [runs EXCEPT ![r] =
                      Advance(Resolved(Entered(IF Falsy(image) THEN @ ELSE Wrote(@, {node.id})), inputs))]
  /\ currentNodeId' = Node(runs[r]).id
  /\ UNCHANGED <<edges, groups, isRunning, pausedAtNodeId, globalImageHistory,
                 incurredCost, now, active, calls, logging, persistence, canvas>>

\* a stopWorkflow that leaves the current node: set({ isRunning: false })
StopWorkflowKeepsCurrent ==
  /\ active = 0
  /\ isRunning' = FALSE
  /\ runs' = [r \in DOMAIN runs |->
                IF Alive(runs[r]) /\ ~runs[r].stopped
                THEN [runs[r] EXCEPT !.stopped = TRUE, !.executedAtStop = Len(runs[r].executed)]
                ELSE runs[r]]
  /\ UNCHANGED <<nodes, edges, groups, currentNodeId, pausedAtNodeId, globalImageHistory,
                 incurredCost, hasUnsavedChanges, now, active, calls, logging, persistence,
                 canvas>>

\* stopWorkflow: set({ isRunning: false, currentNodeId: null })
StopWorkflow ==
  /\ active = 0
  /\ isRunning' = FALSE
  /\ currentNodeId' = NULL
  /\ runs' = [r \in DOMAIN runs |->
                IF Alive(runs[r]) /\ ~runs[r].stopped
                THEN [runs[r] EXCEPT !.stopped = TRUE, !.executedAtStop = Len(runs[r].executed)]
                ELSE runs[r]]
  /\ UNCHANGED <<nodes, edges, groups, pausedAtNodeId, globalImageHistory, incurredCost,
                 hasUnsavedChanges, now, active, calls, logging, persistence, canvas>>

-----------------------------------------------------------------------------
(* Service responses *)

\* what a fetch (or the grid splitter) settles with: a thrown error (kind "throw":
\* its name and message), a response that is not ok (kind "http": the error field
\* of its JSON body, or null), or a parsed JSON body (kind "json")
Response(kind, name, message, success, value, error) ==
  [kind |-> kind, name |-> name, message |-> message, success |-> success,
   value |-> value, error |-> error]

Thrown == {Response("throw", "TypeError", "Failed to fetch", FALSE, NULL, NULL)}

HttpFailures == {Response("http", NULL, NULL, FALSE, NULL, "quota exceeded")}

\* the answers of /api/generate to the call of run r: a failure to connect, a
\* status that is not ok, an image, a body with success false and no error text
GenerateResponses(r) ==
  Thrown \cup HttpFailures
    \cup {Response("json", NULL, NULL, TRUE, "generated-" \o ToString(r), NULL),
          Response("json", NULL, NULL, FALSE, NULL, NULL)}

\* the answers of /api/llm to the call of run r
LLMResponses(r) ==
  Thrown \cup HttpFailures
    \cup {Response("json", NULL, NULL, TRUE, "text-" \o ToString(r), NULL),
          Response("json", NULL, NULL, FALSE, NULL, NULL)}

\* what splitWithDimensions settles with: the cells in row-major order, or an error
SplitResponses(r) ==
  {Response("throw", "Error", "Failed to load image", FALSE, <<>>, NULL),
   Response("json", NULL, NULL, TRUE, << "cell-" \o ToString(r) >>, NULL),
   Response("json", NULL, NULL, TRUE, <<>>, NULL)}

\* pricing of one generation (utils/costCalculator), in tenths of a cent
CalculateGenerationCost(model, resolution) ==
  IF model = "nano-banana" THEN 39
  ELSE IF resolution = "4K" THEN 240 ELSE 134

\* the message of executeWorkflow's catch around the nanoBanana call
CatchMessage(error) ==
  IF error.name = "AbortError"
  THEN "Request timed out. Try reducing image sizes or using a simpler prompt."
  ELSE IF error.name = "TypeError" /\ error.message = "NetworkError when attempting to fetch resource."
  THEN "Network error. Check your connection and try again."
  ELSE IF error.name = "TypeError" THEN "Network error: " \o error.message
  ELSE error.message

\* errorJson.error || `HTTP ${response.status}...`
HttpErrorMessage(resp, statusLine) == OrElse(resp.error, statusLine)

\* the error message the nanoBanana case of executeWorkflow ends with, null on success
GenerateFailure(resp) ==
  CASE resp.kind = "throw" -> CatchMessage(resp)
    [] resp.kind = "http" -> HttpErrorMessage(resp, "HTTP 500: Internal Server Error")
    [] resp.kind = "json" /\ resp.success /\ ~Falsy(resp.value) -> NULL
    [] OTHER -> OrElse(resp.error, "Generation failed")

\* the error message the llmGenerate case of executeWorkflow ends with, null on success
LLMFailure(resp) ==
  CASE resp.kind = "throw" -> resp.message
    [] resp.kind = "http" -> HttpErrorMessage(resp, "HTTP 500")
    [] resp.kind = "json" /\ resp.success /\ ~Falsy(resp.value) -> NULL
    [] OTHER -> OrElse(resp.error, "LLM generation failed")

\* regenerateNode has no inner catch: a thrown error reaches the outer one
RegenerateGenerateFailure(resp) ==
  CASE resp.kind = "throw" -> resp.message
    [] resp.kind = "http" -> HttpErrorMessage(resp, "HTTP 500")
    [] resp.kind = "json" /\ resp.success /\ ~Falsy(resp.value) -> NULL
    [] OTHER -> OrElse(resp.error, "Generation failed")

\* the carousel item of a generation, and the item pushed to the global history
NewHistoryItem(text, nodeData) ==
  [id |-> ToString(now), timestamp |-> now, prompt |-> text, model |-> nodeData.model]

GlobalHistoryItem(image, text, nodeData) ==
  [id |-> ToString(now) \o "-x", image |-> image, timestamp |-> now, prompt |-> text,
   model |-> nodeData.model]

\* the patch of a successful generation; nodeData is node.data as read at run start
GenerationPatch(image, text, nodeData) ==
  [outputImage |-> image, status |-> "complete", error |-> NULL,
   imageHistory |-> <<NewHistoryItem(text, nodeData)>> \o nodeData.imageHistory,
   selectedHistoryIndex |-> 0]

-----------------------------------------------------------------------------
(* executeWorkflow: the generating node kinds *)

\* a failure path that marks the node and returns with the run flag still set
FailRunStillRunning(r, R, message) ==
  /\ nodes' = UpdateNodeData(nodes, Node(R).id, [status |-> "error", error |-> message])
  /\ hasUnsavedChanges' = TRUE
  /\ runs' = [runs EXCEPT ![r] = Ended(Wrote(R, {Node(R).id}), "failed")]
  /\ active' = 0
  /\ EndSession
  /\ UNCHANGED <<edges, groups, isRunning, currentNodeId, pausedAtNodeId,
                 globalImageHistory, incurredCost, now, calls, persistence, canvas>>

\* a failure path that ends the run and leaves the node as it is
FailRunLeavesLoading(r, R, message) ==
  /\ isRunning' = FALSE
  /\ currentNodeId' = NULL
  /\ runs' = [runs EXCEPT ![r] = Ended(R, "failed")]
  /\ active' = 0
  /\ EndSession
  /\ UNCHANGED <<nodes, edges, groups, pausedAtNodeId, globalImageHistory, incurredCost,
                 hasUnsavedChanges, now, calls, persistence, canvas>>

\* a failure path that charges the failed call to the incurred cost
FailRunCharged(r, R, message) ==
  /\ nodes' = UpdateNodeData(nodes, Node(R).id, [status |-> "error", error |-> message])
  /\ hasUnsavedChanges' = TRUE
  /\ isRunning' = FALSE
  /\ currentNodeId' = NULL
  /\ incurredCost' = incurredCost + CalculateGenerationCost("nano-banana-pro", "1K")
  /\ runs' = [runs EXCEPT ![r] = Ended(Wrote(R, {Node(R).id}), "failed")]
  /\ active' = 0
  /\ EndSession
  /\ UNCHANGED <<edges, groups, pausedAtNodeId, globalImageHistory, now, calls, persistence, canvas>>

\* updateNodeData(node.id, { status: "error", error }); set({ isRunning: false,
\* currentNodeId: null }) -- R is the run's closure at that point
FailNode(r, R, message) ==
  /\ nodes' = UpdateNodeData(nodes, Node(R).id, [status |-> "error", error |-> message])
  /\ hasUnsavedChanges' = TRUE
  /\ isRunning' = FALSE
  /\ currentNodeId' = NULL
  /\ runs' = [runs EXCEPT ![r] = Ended(Wrote(R, {Node(R).id}), "failed")]
  /\ active' = 0
  /\ UNCHANGED <<edges, groups, pausedAtNodeId, globalImageHistory, incurredCost, now, calls,
                 persistence, canvas>>

\* the failure path of a node: FailNode; await logger.endSession(); return
FailRun(r, R, message) ==
  /\ FailNode(r, R, message)
  /\ EndSession

\* the failure path of executeWorkflow's splitGrid validation: FailNode; return
FailRunSessionOpen(r, R, message) ==
  /\ FailNode(r, R, message)
  /\ UNCHANGED logging

\* the failure paths of regenerateNode that reach the end of its try block or its
\* catch: FailNode, the session is posted and ended
FailRunPosted(r, R, message) ==
  /\ FailNode(r, R, message)
  /\ PostAndEndSession

\* updateNodeData(node.id, { ..., status: "loading", error: null }) and the await
\* of the service: the task ends with the call in flight
StartCall(r, R, pc, patch) ==
  /\ nodes' = UpdateNodeData(nodes, Node(R).id, patch)
  /\ hasUnsavedChanges' = TRUE
  /\ currentNodeId' = Node(R).id
  /\ runs' = [runs EXCEPT ![r] = [Wrote(R, {Node(R).id}) EXCEPT !.pc = pc]]
  /\ active' = 0
  /\ UNCHANGED <<edges, groups, isRunning, pausedAtNodeId, globalImageHistory,
                 incurredCost, now, calls, logging, persistence, canvas>>

\* an image-generate case that takes an empty prompt for a prompt
ExecuteNanoBananaNullText(r) ==
  /\ Executes(r)
  /\ Node(runs[r]).type = "nanoBanana"
  /\ LET inputs == GetConnectedInputs(nodes, edges, Node(runs[r]).id)
         R == [Resolved(Entered(runs[r]), inputs) EXCEPT
                 !.images = inputs.images, !.text = inputs.text]
     IN IF inputs.images = <<>> \/ inputs.text = NULL
        THEN FailRun(r, R, "Missing image or text input")
        ELSE StartCall(r, R, "generate",
                       [inputImages |-> inputs.images, inputPrompt |-> inputs.text,
                        status |-> "loading", error |-> NULL])

\* case "nanoBanana", to the fetch of /api/generate
ExecuteNanoBanana(r) ==
  /\ Executes(r)
  /\ Node(runs[r]).type = "nanoBanana"
  /\ LET inputs == GetConnectedInputs(nodes, edges, Node(runs[r]).id)
         R == [Resolved(Entered(runs[r]), inputs) EXCEPT
                 !.images = inputs.images, !.text = inputs.text]
     IN IF inputs.images = <<>> \/ Falsy(inputs.text)
        THEN FailRun(r, R, "Missing image or text input")
        ELSE StartCall(r, R, "generate",
                       [inputImages |-> inputs.images, inputPrompt |-> inputs.text,
                        status |-> "loading", error |-> NULL])

\* saveWorkflowCostData(data): allCosts[data.workflowId] = data
SaveWorkflowCostData(allCosts, id, cost) ==
  {d \in allCosts : d.workflowId # id} \cup {[workflowId |-> id, incurredCost |-> cost]}

\* saveIncurredCost() after the total became cost
SaveIncurredCost(cost) ==
  costData' = IF Falsy(workflowId) THEN costData
              ELSE SaveWorkflowCostData(costData, workflowId, cost)

\* if (genPath) fetch("/api/save-generation", ...).catch(console.error): the request
\* is made and not awaited
SaveGeneration(image) ==
  generationSaves' = IF Falsy(generationsPath) THEN generationSaves
                     ELSE Append(generationSaves, [image |-> image, status |-> "pending"])

\* a response handler that drops the answer of a call whose run was stopped
GenerateResponseUnlessStopped(r, resp) ==
  /\ Awaits(r, "generate")
  /\ runs[r].op = "executeWorkflow"
  /\ IF ~isRunning
     THEN /\ runs' = [runs EXCEPT ![r] = Ended(@, "stopped")]
          /\ UNCHANGED <<store, now, active, calls, logging, persistence, canvas>>
     ELSE LET R == runs[r]
              nodeData == Node(R).data
          IN IF GenerateFailure(resp) # NULL
             THEN FailRun(r, R, GenerateFailure(resp))
             ELSE /\ globalImageHistory' =
                       <<GlobalHistoryItem(resp.value, R.text, nodeData)>> \o globalImageHistory
                  /\ nodes' = UpdateNodeData(nodes, Node(R).id,
                                             GenerationPatch(resp.value, R.text, nodeData))
                  /\ hasUnsavedChanges' = TRUE
                  /\ incurredCost' =
                       incurredCost + CalculateGenerationCost(nodeData.model, nodeData.resolution)
                  /\ now' = now + 1
                  /\ runs' = [runs EXCEPT ![r] = [Advance(Generated(R)) EXCEPT !.pc = "loop"]]
                  /\ active' = r
                  /\ SaveIncurredCost(incurredCost')
                  /\ SaveGeneration(resp.value)
                  /\ UNCHANGED <<edges, groups, isRunning, currentNodeId, pausedAtNodeId, calls,
                                 logging, project, canvas>>

\* case "nanoBanana", from the response of /api/generate on
GenerateResponse(r, resp) ==
  /\ Awaits(r, "generate")
  /\ runs[r].op = "executeWorkflow"
  /\ LET R == runs[r]
         nodeData == Node(R).data
     IN IF GenerateFailure(resp) # NULL
        THEN FailRun(r, R, GenerateFailure(resp))
        ELSE /\ globalImageHistory' =
                  <<GlobalHistoryItem(resp.value, R.text, nodeData)>> \o globalImageHistory
             /\ nodes' = UpdateNodeData(nodes, Node(R).id,
                                        GenerationPatch(resp.value, R.text, nodeData))
             /\ hasUnsavedChanges' = TRUE
             /\ incurredCost' =
                  incurredCost + CalculateGenerationCost(nodeData.model, nodeData.resolution)
             /\ now' = now + 1
             /\ runs' = [runs EXCEPT ![r] = [Advance(Generated(R)) EXCEPT !.pc = "loop"]]
             /\ active' = r
             /\ SaveIncurredCost(incurredCost')
             /\ SaveGeneration(resp.value)
             /\ UNCHANGED <<edges, groups, isRunning, currentNodeId, pausedAtNodeId, calls,
                            logging, project, canvas>>

\* a text-generate case that takes an empty prompt for a prompt
ExecuteLLMGenerateNullText(r) ==
  /\ Executes(r)
  /\ Node(runs[r]).type = "llmGenerate"
  /\ LET inputs == GetConnectedInputs(nodes, edges, Node(runs[r]).id)
         R == [Resolved(Entered(runs[r]), inputs) EXCEPT
                 !.images = inputs.images, !.text = inputs.text]
     IN IF inputs.text = NULL
        THEN FailRun(r, R, "Missing text input")
        ELSE StartCall(r, R, "llm",
                       [inputPrompt |-> inputs.text, inputImages |-> inputs.images,
                        status |-> "loading", error |-> NULL])

\* case "llmGenerate", to the fetch of /api/llm
ExecuteLLMGenerate(r) ==
  /\ Executes(r)
  /\ Node(runs[r]).type = "llmGenerate"
  /\ LET inputs == GetConnectedInputs(nodes, edges, Node(runs[r]).id)
         R == [Resolved(Entered(runs[r]), inputs) EXCEPT
                 !.images = inputs.images, !.text = inputs.text]
     IN IF Falsy(inputs.text)
        THEN FailRun(r, R, "Missing text input")
        ELSE StartCall(r, R, "llm",
                       [inputPrompt |-> inputs.text, inputImages |-> inputs.images,
                        status |-> "loading", error |-> NULL])

\* case "llmGenerate", from the response of /api/llm on
LLMResponse(r, resp) ==
  /\ Awaits(r, "llm")
  /\ runs[r].op = "executeWorkflow"
  /\ LET R == runs[r]
     IN IF LLMFailure(resp) # NULL
        THEN FailRun(r, R, LLMFailure(resp))
        ELSE /\ nodes' = UpdateNodeData(nodes, Node(R).id,
                           [outputText |-> resp.value, status |-> "complete", error |-> NULL])
             /\ hasUnsavedChanges' = TRUE
             /\ runs' = [runs EXCEPT ![r] = [Advance(R) EXCEPT !.pc = "loop"]]
             /\ active' = r
             /\ UNCHANGED <<edges, groups, isRunning, currentNodeId, pausedAtNodeId,
                            globalImageHistory, incurredCost, now, calls, logging, persistence, canvas>>

-----------------------------------------------------------------------------
(* Grid split: executeWorkflow's case "splitGrid" and regenerateNode's branch *)

\* a filename that takes the column for the row and the row for the column
SplitFilenameColumnFirst(index, gridCols) ==
  "split-" \o ToString((index % gridCols) + 1) \o "-"
    \o ToString((index \div gridCols) + 1) \o ".png"

\* `split-${Math.floor(index / gridCols) + 1}-${(index % gridCols) + 1}.png`
\* for the 0-based index of a cell
SplitFilename(index, gridCols) ==
  "split-" \o ToString((index \div gridCols) + 1) \o "-"
    \o ToString((index % gridCols) + 1) \o ".png"

\* a split that does not ask whether the node was configured
SplitGridStartUnconfigured(r, R0) ==
  LET inputs == GetConnectedInputs(nodes, edges, Node(R0).id)
      sourceImage == IF inputs.images = <<>> THEN NULL ELSE inputs.images[1]
      R == [Resolved(R0, inputs) EXCEPT !.images = inputs.images]
  IN IF Falsy(sourceImage)
     THEN IF R.op = "executeWorkflow"
          THEN FailRunSessionOpen(r, R, "No input image connected")
          ELSE FailRun(r, R, "No input image connected")
     ELSE StartCall(r, R, "split",
                    [sourceImage |-> sourceImage, status |-> "loading", error |-> NULL])

\* the split node's validation and the await of splitWithDimensions; R0 is the
\* run's closure when the branch is entered (executeWorkflow's validation returns
\* without ending the session, regenerateNode's ends it)
SplitGridStart(r, R0) ==
  LET inputs == GetConnectedInputs(nodes, edges, Node(R0).id)
      sourceImage == IF inputs.images = <<>> THEN NULL ELSE inputs.images[1]
      R == [Resolved(R0, inputs) EXCEPT !.images = inputs.images]
  IN IF Falsy(sourceImage)
     THEN IF R.op = "executeWorkflow"
          THEN FailRunSessionOpen(r, R, "No input image connected")
          ELSE FailRun(r, R, "No input image connected")
     ELSE IF ~Node(R).data.isConfigured
     THEN IF R.op = "executeWorkflow"
          THEN FailRunSessionOpen(r, R, "Node not configured - open settings first")
          ELSE FailRun(r, R, "Node not configured - open settings first")
     ELSE StartCall(r, R, "split",
                    [sourceImage |-> sourceImage, status |-> "loading", error |-> NULL])

\* case "splitGrid", to the await of the splitter
ExecuteSplitGrid(r) ==
  /\ Executes(r)
  /\ Node(runs[r]).type = "splitGrid"
  /\ SplitGridStart(r, Entered(runs[r]))

\* splitWithDimensions settles: the catch, or the loop over the child nodes starts
SplitResponse(r, resp) ==
  /\ Awaits(r, "split")
  /\ IF resp.kind = "throw"
     THEN FailRun(r, runs[r], resp.message)
     ELSE /\ runs' = [runs EXCEPT ![r] =
                        [@ EXCEPT !.pc = "splitLoop", !.splitImages = resp.value, !.index = 1]]
          /\ active' = r
          /\ UNCHANGED <<store, now, calls, logging, persistence, canvas>>

\* the cell of the child at the loop's index, null when the splitter gave none
SplitCell(R) == IF R.index <= Len(R.splitImages) THEN R.splitImages[R.index] ELSE NULL

\* if (splitImages[index]) is false: next child
SplitLoopSkip(r) ==
  /\ active = r
  /\ runs[r].pc = "splitLoop"
  /\ runs[r].index <= Len(Node(runs[r]).data.childNodeIds)
  /\ Falsy(SplitCell(runs[r]))
  /\ runs' = [runs EXCEPT ![r] = [@ EXCEPT !.index = @ + 1]]
  /\ UNCHANGED <<store, now, active, calls, logging, persistence, canvas>>

\* await new Promise(...) around the load of the cell's image
SplitLoopAwait(r) ==
  /\ active = r
  /\ runs[r].pc = "splitLoop"
  /\ runs[r].index <= Len(Node(runs[r]).data.childNodeIds)
  /\ ~Falsy(SplitCell(runs[r]))
  /\ runs' = [runs EXCEPT ![r] = [@ EXCEPT !.pc = "childImage"]]
  /\ active' = 0
  /\ UNCHANGED <<store, now, calls, logging, persistence, canvas>>

\* img.onload writes the cell into the child image-source node; img.onerror writes nothing
ChildImageSettled(r, loaded) ==
  /\ Awaits(r, "childImage")
  /\ LET R == runs[r]
         nodeData == Node(R).data
         child == nodeData.childNodeIds[R.index].imageInput
     IN /\ nodes' = IF loaded
                    THEN UpdateNodeData(nodes, child,
                           [image |-> SplitCell(R),
                            filename |-> SplitFilename(R.index - 1, nodeData.gridCols)])
                    ELSE nodes
        /\ hasUnsavedChanges' = (hasUnsavedChanges \/ loaded)
        /\ runs' = [runs EXCEPT ![r] =
                      [(IF loaded THEN Wrote(R, {child}) ELSE R) EXCEPT
                         !.pc = "splitLoop", !.index = @ + 1]]
  /\ active' = r
  /\ UNCHANGED <<edges, groups, isRunning, currentNodeId, pausedAtNodeId,
                 globalImageHistory, incurredCost, now, calls, logging, persistence, canvas>>

\* after the last child: updateNodeData(node.id, { status: "complete", error: null });
\* executeWorkflow goes on with its loop, regenerateNode ends
SplitLoopEnd(r) ==
  /\ active = r
  /\ runs[r].pc = "splitLoop"
  /\ runs[r].index > Len(Node(runs[r]).data.childNodeIds)
  /\ nodes' = UpdateNodeData(nodes, Node(runs[r]).id, [status |-> "complete", error |-> NULL])
  /\ hasUnsavedChanges' = TRUE
  /\ IF runs[r].op = "executeWorkflow"
     THEN /\ runs' = [runs EXCEPT ![r] = [Advance(@) EXCEPT !.pc = "loop"]]
          /\ UNCHANGED <<isRunning, currentNodeId, active, logging>>
     ELSE /\ runs' = [runs EXCEPT ![r] = Ended(@, "completed")]
          /\ isRunning' = FALSE
          /\ currentNodeId' = NULL
          /\ active' = 0
          /\ PostAndEndSession
  /\ UNCHANGED <<edges, groups, pausedAtNodeId, globalImageHistory, incurredCost, now, calls,
                 persistence, canvas>>

-----------------------------------------------------------------------------
(* regenerateNode *)

\* regenerateNode(nodeId) up to its dispatch on the node's kind: the guard, the
\* lookup of the node, set({ isRunning: true, currentNodeId: nodeId })
RegenerateNode(nodeId) ==
  /\ active = 0
  /\ calls < MaxCalls
  /\ calls' = calls + 1
  /\ IF AlreadyRunning \/ FindIndex(nodes, nodeId) = 0
     THEN UNCHANGED <<store, now, runs, active, logging, persistence, canvas>>
     ELSE /\ isRunning' = TRUE
          /\ currentNodeId' = nodeId
          /\ runs' = Append(runs, Entered(NewRun("regenerateNode", nodeId, FALSE,
                                                 <<GetNodeById(nodes, nodeId)>>, 1)))
          /\ active' = Len(runs) + 1
          /\ currentSession' = GenerateSessionId(Len(runs) + 1)
          /\ UNCHANGED <<nodes, edges, groups, pausedAtNodeId, globalImageHistory,
                         incurredCost, hasUnsavedChanges, now, postedSessions, persistence, canvas>>

Regenerates(r, types) ==
  /\ active = r
  /\ runs[r].pc = "loop"
  /\ runs[r].op = "regenerateNode"
  /\ Node(runs[r]).type \in types

\* the inputs of a regeneration: the connected ones, else the ones stored on the node
RegenerateInputs(node) ==
  LET inputs == GetConnectedInputs(nodes, edges, node.id)
  IN [images |-> IF inputs.images # <<>> THEN inputs.images ELSE node.data.inputImages,
      text |-> Nullish(inputs.text, node.data.inputPrompt)]

\* the nanoBanana branch, to the fetch of /api/generate
RegenerateNanoBanana(r) ==
  /\ Regenerates(r, {"nanoBanana"})
  /\ LET inputs == RegenerateInputs(Node(runs[r]))
         R == [Resolved(runs[r], inputs) EXCEPT !.images = inputs.images, !.text = inputs.text]
     IN IF inputs.images = <<>> \/ Falsy(inputs.text)
        THEN FailRun(r, R, "Missing image or text input")
        ELSE StartCall(r, R, "generate", [status |-> "loading", error |-> NULL])

\* the llmGenerate branch, to the fetch of /api/llm
RegenerateLLMGenerate(r) ==
  /\ Regenerates(r, {"llmGenerate"})
  /\ LET inputs == RegenerateInputs(Node(runs[r]))
         R == [Resolved(runs[r], inputs) EXCEPT !.images = inputs.images, !.text = inputs.text]
     IN IF Falsy(inputs.text)
        THEN FailRun(r, R, "Missing text input")
        ELSE StartCall(r, R, "llm",
                       [inputImages |-> inputs.images, status |-> "loading", error |-> NULL])

\* the splitGrid branch, to the await of the splitter
RegenerateSplitGrid(r) ==
  /\ Regenerates(r, {"splitGrid"})
  /\ SplitGridStart(r, runs[r])

\* a node of any other kind: nothing is done, the regeneration "completes"
RegenerateOther(r) ==
  /\ Regenerates(r, {"imageInput", "annotation", "prompt", "output"})
  /\ isRunning' = FALSE
  /\ currentNodeId' = NULL
  /\ runs' = [runs EXCEPT ![r] = Ended(@, "completed")]
  /\ active' = 0
  /\ PostAndEndSession
  /\ UNCHANGED <<nodes, edges, groups, pausedAtNodeId, globalImageHistory, incurredCost,
                 hasUnsavedChanges, now, calls, persistence, canvas>>

\* the nanoBanana branch from the response on: every path ends the regeneration
RegenerateGenerateResponse(r, resp) ==
  /\ Awaits(r, "generate")
  /\ runs[r].op = "regenerateNode"
  /\ LET R == runs[r]
         nodeData == Node(R).data
     IN IF RegenerateGenerateFailure(resp) # NULL
        THEN IF resp.kind = "http"
             THEN FailRun(r, R, RegenerateGenerateFailure(resp))
             ELSE FailRunPosted(r, R, RegenerateGenerateFailure(resp))
        ELSE /\ globalImageHistory' =
                  <<GlobalHistoryItem(resp.value, R.text, nodeData)>> \o globalImageHistory
             /\ nodes' = UpdateNodeData(nodes, Node(R).id,
                                        GenerationPatch(resp.value, R.text, nodeData))
             /\ hasUnsavedChanges' = TRUE
             /\ incurredCost' =
                  incurredCost + CalculateGenerationCost(nodeData.model, nodeData.resolution)
             /\ now' = now + 1
             /\ isRunning' = FALSE
             /\ currentNodeId' = NULL
             /\ runs' = [runs EXCEPT ![r] = Ended(Generated(R), "completed")]
             /\ active' = 0
             /\ PostAndEndSession
             /\ SaveIncurredCost(incurredCost')
             /\ SaveGeneration(resp.value)
             /\ UNCHANGED <<edges, groups, pausedAtNodeId, calls, project, canvas>>

\* the llmGenerate branch from the response on
RegenerateLLMResponse(r, resp) ==
  /\ Awaits(r, "llm")
  /\ runs[r].op = "regenerateNode"
  /\ LET R == runs[r]
     IN IF LLMFailure(resp) # NULL
        THEN IF resp.kind = "http"
             THEN FailRun(r, R, LLMFailure(resp))
             ELSE FailRunPosted(r, R, LLMFailure(resp))
        ELSE /\ nodes' = UpdateNodeData(nodes, Node(R).id,
                           [outputText |-> resp.value, status |-> "complete", error |-> NULL])
             /\ hasUnsavedChanges' = TRUE
             /\ isRunning' = FALSE
             /\ currentNodeId' = NULL
             /\ runs' = [runs EXCEPT ![r] = Ended(R, "completed")]
             /\ active' = 0
             /\ PostAndEndSession
             /\ UNCHANGED <<edges, groups, pausedAtNodeId, globalImageHistory,
                            incurredCost, now, calls, persistence, canvas>>

-----------------------------------------------------------------------------
(* Specification *)

\* what executeWorkflow may be called with: nothing, or the id of the selected node
EntryNodeIds == {NULL} \cup NodeIds(nodes)

\* the calls of a behaviour, by their index in runs
Runs == 1..MaxCalls

Next ==
  \/ \E e \in EntryNodeIds : ExecuteWorkflow(e)
  \/ \E n \in NodeIds(nodes) : RegenerateNode(n)
  \/ StopWorkflow
  \/ \E r \in Runs : LoopExit(r)
  \/ \E r \in Runs : Pause(r)
  \/ \E r \in Runs : SkipLocked(r)
  \/ \E r \in Runs : ExecutePassThrough(r)
  \/ \E r \in Runs : ExecuteAnnotation(r)
  \/ \E r \in Runs : ExecuteOutput(r)
  \/ \E r \in Runs : ExecuteNanoBanana(r)
  \/ \E r \in Runs : ExecuteLLMGenerate(r)
  \/ \E r \in Runs : ExecuteSplitGrid(r)
  \/ \E r \in Runs : SplitLoopSkip(r)
  \/ \E r \in Runs : SplitLoopAwait(r)
  \/ \E r \in Runs : SplitLoopEnd(r)
  \/ \E r \in Runs : RegenerateNanoBanana(r)
  \/ \E r \in Runs : RegenerateLLMGenerate(r)
  \/ \E r \in Runs : RegenerateSplitGrid(r)
  \/ \E r \in Runs : RegenerateOther(r)
  \/ \E r \in Runs : \E resp \in GenerateResponses(r) : GenerateResponse(r, resp)
  \/ \E r \in Runs : \E resp \in GenerateResponses(r) : RegenerateGenerateResponse(r, resp)
  \/ \E r \in Runs : \E resp \in LLMResponses(r) : LLMResponse(r, resp)
  \/ \E r \in Runs : \E resp \in LLMResponses(r) : RegenerateLLMResponse(r, resp)
  \/ \E r \in Runs : \E resp \in SplitResponses(r) : SplitResponse(r, resp)
  \/ \E r \in Runs : \E loaded \in BOOLEAN : ChildImageSettled(r, loaded)

Spec == Init /\ [][Next]_vars

-----------------------------------------------------------------------------
(* The sorter on arbitrary small graphs *)

SortIds == {"prompt-" \o ToString(k) : k \in 1..SortNodes}

\* the ends of an edge: a node of the graph, or a node that is no longer there
SortEdgeEnds == SortIds \cup {"prompt-0"}

SortEdgeSet == {MkEdge(s, t, "text") : s \in SortEdgeEnds, t \in SortEdgeEnds}

\* the lists of at most SortEdges different edges, in every order
SortEdgeLists ==
  {es \in UNION {[1..n -> SortEdgeSet] : n \in 0..SortEdges} :
     \A j, k \in DOMAIN es : j # k => es[j] # es[k]}

SortInit ==
  \E es \in SortEdgeLists :
    InitStore([nodes |-> [k \in 1..SortNodes |->
                            MkNode("prompt-" \o ToString(k), "prompt", <<>>)],
               edges |-> es,
               groups |-> <<>>])

SortNext ==
  \/ ExecuteWorkflow(NULL)
  \/ \E r \in Runs : ExecutePassThrough(r)
  \/ \E r \in Runs : LoopExit(r)

SortSpec == SortInit /\ [][SortNext]_vars

-----------------------------------------------------------------------------
(* One node and the edges that come into it *)

\* isValidConnection, for a connection from a source handle to a target handle
IsValidConnection(sourceHandle, targetHandle) ==
  LET imageHandles == {"image", "content", "style"}
      textHandles == {"text"}
  IN /\ ~(sourceHandle \in imageHandles /\ targetHandle \notin imageHandles)
     /\ ~(sourceHandle \in textHandles /\ targetHandle \notin textHandles)

\* getNodeHandles: the input and output handles of each node kind
GetNodeHandles(nodeType) ==
  CASE nodeType = "imageInput" -> [inputs |-> {"reference"}, outputs |-> {"image"}]
    [] nodeType = "annotation" -> [inputs |-> {"image"}, outputs |-> {"image"}]
    [] nodeType = "prompt" -> [inputs |-> {}, outputs |-> {"text"}]
    [] nodeType = "nanoBanana" -> [inputs |-> {"image", "text"}, outputs |-> {"image"}]
    [] nodeType = "styleTransfer" ->
         [inputs |-> {"content", "style", "text"}, outputs |-> {"image"}]
    [] nodeType = "llmGenerate" -> [inputs |-> {"text", "image"}, outputs |-> {"text"}]
    [] nodeType = "splitGrid" -> [inputs |-> {"image"}, outputs |-> {"reference"}]
    [] nodeType = "output" -> [inputs |-> {"image"}, outputs |-> {}]
    [] OTHER -> [inputs |-> {}, outputs |-> {}]

\* the nodes that feed the target: image sources with and without an image, a
\* generator that kept an output, prompts with and without text, a language
\* model that has not answered yet
InputSources ==
  << MkNode("imageInput-1", "imageInput", [image |-> "photo"]),
     MkNode("imageInput-2", "imageInput", <<>>),
     MkNode("nanoBanana-1", "nanoBanana", [outputImage |-> "kept", status |-> "complete"]),
     MkNode("prompt-1", "prompt", [prompt |-> "draw a cat"]),
     MkNode("prompt-2", "prompt", <<>>),
     MkNode("llmGenerate-1", "llmGenerate", <<>>) >>

\* a style transfer node as a saved document holds it (StyleTransferNodeData)
StyleTransferNode ==
  [id |-> "styleTransfer-1", type |-> "styleTransfer", groupId |-> NULL,
   data |-> [contentImage |-> NULL, styleImage |-> NULL, prompt |-> "",
             outputImage |-> NULL, resolution |-> "1K", model |-> "nano-banana-pro",
             status |-> "idle", error |-> NULL]]

\* the node whose inputs are resolved
InputTargets ==
  {MkNode("nanoBanana-2", "nanoBanana", <<>>),
   MkNode("llmGenerate-2", "llmGenerate", <<>>),
   StyleTransferNode}
    \cup {MkNode("splitGrid-1", "splitGrid",
                 [isConfigured |-> c, gridRows |-> 1, gridCols |-> 1,
                  childNodeIds |-> << [imageInput |-> "imageInput-2"] >>]) : c \in BOOLEAN}

\* the edges the canvas lets the user draw into the target, and for a generator
\* an edge of a document that names no target handle
InputEdgeSet(target) ==
  {MkEdge(InputSources[k].id, target.id, h) :
     <<k, h>> \in {p \in (DOMAIN InputSources) \X GetNodeHandles(target.type).inputs :
                    \A sh \in GetNodeHandles(InputSources[p[1]].type).outputs :
                      IsValidConnection(sh, p[2])}}
    \cup (IF target.type = "nanoBanana"
          THEN {MkEdge("imageInput-1", target.id, NULL)} ELSE {})

\* the lists of at most MaxInputEdges different edges into the target, in every order
InputEdgeLists(target) ==
  {es \in UNION {[1..n -> InputEdgeSet(target)] : n \in 0..MaxInputEdges} :
     \A j, k \in DOMAIN es : j # k => es[j] # es[k]}

InputInit ==
  \E target \in InputTargets :
    \E es \in InputEdgeLists(target) :
      InitStore([nodes |-> Append(InputSources, target), edges |-> es, groups |-> <<>>])

\* the target, last in the node array
InputTarget == nodes[Len(nodes)]

\* Run from selected node on the target, and what that run goes through
InputNext ==
  \/ ExecuteWorkflow(InputTarget.id)
  \/ \E r \in Runs : ExecuteNanoBanana(r)
  \/ \E r \in Runs : ExecuteLLMGenerate(r)
  \/ \E r \in Runs : ExecuteSplitGrid(r)
  \/ \E r \in Runs : ExecuteUnhandled(r)
  \/ \E r \in Runs : LoopExit(r)
  \/ \E r \in Runs : SplitLoopSkip(r)
  \/ \E r \in Runs : SplitLoopAwait(r)
  \/ \E r \in Runs : SplitLoopEnd(r)
  \/ \E r \in Runs : \E resp \in GenerateResponses(r) : GenerateResponse(r, resp)
  \/ \E r \in Runs : \E resp \in LLMResponses(r) : LLMResponse(r, resp)
  \/ \E r \in Runs : \E resp \in SplitResponses(r) : SplitResponse(r, resp)
  \/ \E r \in Runs : \E loaded \in BOOLEAN : ChildImageSettled(r, loaded)

InputSpec == InputInit /\ [][InputNext]_vars

-----------------------------------------------------------------------------
(* Canvas edits, made between the tasks of a run *)

\* addNode(type, position): a node of the kind with the next id and default data
AddNode(type) ==
  /\ active = 0
  /\ edits < MaxEdits
  /\ edits' = edits + 1
  /\ nodeIdCounter' = nodeIdCounter + 1
  /\ nodes' = Append(nodes, MkNode(type \o "-" \o ToString(nodeIdCounter + 1), type, <<>>))
  /\ hasUnsavedChanges' = TRUE
  /\ UNCHANGED <<edges, groups, isRunning, currentNodeId, pausedAtNodeId, globalImageHistory,
                 incurredCost, now, runs, active, calls, logging, persistence>>

\* a removal that also takes the node out of the order of the runs under way
RemoveNodeFromRuns(nodeId) ==
  /\ active = 0
  /\ edits < MaxEdits
  /\ edits' = edits + 1
  /\ nodes' = SelectSeq(nodes, LAMBDA node : node.id # nodeId)
  /\ edges' = SelectSeq(edges, LAMBDA edge : edge.source # nodeId /\ edge.target # nodeId)
  /\ hasUnsavedChanges' = TRUE
  /\ runs' = [r \in DOMAIN runs |->
                [runs[r] EXCEPT !.sorted = SelectSeq(@, LAMBDA node : node.id # nodeId)]]
  /\ UNCHANGED <<groups, isRunning, currentNodeId, pausedAtNodeId, globalImageHistory,
                 incurredCost, now, active, calls, logging, persistence, nodeIdCounter>>

\* removeNode(nodeId): the node and the edges at it leave the store
RemoveNode(nodeId) ==
  /\ active = 0
  /\ edits < MaxEdits
  /\ edits' = edits + 1
  /\ nodes' = SelectSeq(nodes, LAMBDA node : node.id # nodeId)
  /\ edges' = SelectSeq(edges, LAMBDA edge : edge.source # nodeId /\ edge.target # nodeId)
  /\ hasUnsavedChanges' = TRUE
  /\ UNCHANGED <<groups, isRunning, currentNodeId, pausedAtNodeId, globalImageHistory,
                 incurredCost, now, runs, active, calls, logging, persistence, nodeIdCounter>>

\* removeEdge(edgeId), for the edge at index k of the edge array
RemoveEdge(k) ==
  /\ active = 0
  /\ edits < MaxEdits
  /\ edits' = edits + 1
  /\ k \in DOMAIN edges
  /\ edges' = SelectSeq(edges, LAMBDA edge : edge # edges[k])
  /\ hasUnsavedChanges' = TRUE
  /\ UNCHANGED <<nodes, groups, isRunning, currentNodeId, pausedAtNodeId, globalImageHistory,
                 incurredCost, now, runs, active, calls, logging, persistence, nodeIdCounter>>

\* a Connection: an output handle of the source node to an input handle of the target
Connection(source, sourceHandle, target, targetHandle) ==
  [source |-> source, sourceHandle |-> sourceHandle, target |-> target,
   targetHandle |-> targetHandle]

\* the connections the canvas offers: from an output handle of a node to an input
\* handle of a node
Connections ==
  {Connection(nodes[j].id, sh, nodes[k].id, th) :
     <<j, sh, k, th>> \in
       {q \in (DOMAIN nodes) \X {"image", "text", "reference"} \X (DOMAIN nodes)
                \X {"image", "text", "reference"} :
          /\ q[2] \in GetNodeHandles(nodes[q[1]].type).outputs
          /\ q[4] \in GetNodeHandles(nodes[q[3]].type).inputs}}

\* onConnect(connection): React Flow's addEdge appends the edge unless the same
\* connection is there already (the source handle is the source kind's only output)
OnConnect(connection) ==
  LET edge == MkEdge(connection.source, connection.target, connection.targetHandle)
  IN edges' = IF \E k \in DOMAIN edges :
                    /\ edges[k].source = edge.source
                    /\ edges[k].target = edge.target
                    /\ edges[k].targetHandle = edge.targetHandle
               THEN edges ELSE Append(edges, edge)

\* handleConnect(connection) with no multiple selection:
\* if (!isValidConnection(connection)) return; onConnect(connection)
HandleConnect(connection) ==
  /\ active = 0
  /\ edits < MaxEdits
  /\ edits' = edits + 1
  /\ IF IsValidConnection(connection.sourceHandle, connection.targetHandle)
     THEN OnConnect(connection) /\ hasUnsavedChanges' = TRUE
     ELSE UNCHANGED <<edges, hasUnsavedChanges>>
  /\ UNCHANGED <<nodes, groups, isRunning, currentNodeId, pausedAtNodeId, globalImageHistory,
                 incurredCost, now, runs, active, calls, logging, persistence, nodeIdCounter>>

\* the chain as loaded, edited while it runs
EditInit == InitStore(WithPauseAndLock(ChainWorkflow("photo"), {}, {}))

EditNext ==
  \/ ExecuteWorkflow(NULL)
  \/ \E r \in Runs : ExecutePassThrough(r)
  \/ \E r \in Runs : ExecuteNanoBanana(r)
  \/ \E r \in Runs : \E resp \in GenerateResponses(r) : GenerateResponse(r, resp)
  \/ \E r \in Runs : LoopExit(r)
  \/ AddNode("prompt")
  \/ \E n \in NodeIds(nodes) : RemoveNode(n)
  \/ \E k \in DOMAIN edges : RemoveEdge(k)
  \/ \E connection \in Connections : HandleConnect(connection)

EditSpec == EditInit /\ [][EditNext]_vars

-----------------------------------------------------------------------------
(* Properties *)

\* the targets of the edges that leave a node of S
Successors(es, S) == {es[k].target : k \in {j \in DOMAIN es : es[j].source \in S}}

RECURSIVE Descendants(_, _, _)
\* S and what is reached from S along at most n edges
Descendants(es, S, n) ==
  IF n = 0 THEN S ELSE Descendants(es, S \cup Successors(es, S), n - 1)

\* no edge closes a path back to its own source
Acyclic(es) ==
  \A k \in DOMAIN es : es[k].source \notin Descendants(es, {es[k].target}, Len(es))

\* C2: for an acyclic snapshot the sort does not throw, its order holds every node
\* exactly once, and every edge between two nodes of the graph has its source at a
\* smaller index than its target
C2_TopologicalOrder ==
  \A r \in DOMAIN runs :
    (runs[r].op = "executeWorkflow" /\ Acyclic(runs[r].edges)) =>
      /\ runs[r].outcome # "cycle"
      /\ Len(runs[r].sorted) = Len(nodes)
      /\ \A id \in NodeIds(nodes) :
           Cardinality({k \in DOMAIN runs[r].sorted : runs[r].sorted[k].id = id}) = 1
      /\ \A k \in DOMAIN runs[r].edges :
           LET e == runs[r].edges[k] IN
           (e.source \in NodeIds(nodes) /\ e.target \in NodeIds(nodes)) =>
             FindIndex(runs[r].sorted, e.source) < FindIndex(runs[r].sorted, e.target)

\* an acyclic graph was sorted whose edges run against the order of the node array
C2_Witness ==
  \E r \in DOMAIN runs :
    /\ Acyclic(runs[r].edges)
    /\ runs[r].outcome = "completed"
    /\ \E j, k \in DOMAIN runs[r].edges :
         /\ runs[r].edges[j].target = runs[r].edges[k].source
         /\ runs[r].edges[k].target = "prompt-1"
         /\ runs[r].edges[j].source \in NodeIds(nodes)
         /\ runs[r].edges[k].source \in NodeIds(nodes)
    /\ [k \in DOMAIN runs[r].sorted |-> runs[r].sorted[k].id] # [k \in DOMAIN nodes |-> nodes[k].id]

\* the ids of the nodes after position i of an order
Later(sorted, i) == {sorted[k].id : k \in (i + 1)..Len(sorted)}

\* run r ends as failed in this step
FailsNow(r) ==
  /\ r \in DOMAIN runs
  /\ runs[r].op = "executeWorkflow"
  /\ runs[r].outcome # "failed"
  /\ runs'[r].outcome = "failed"

\* C1: the step in which a node of a run fails leaves that node with status error and
\* a non-empty message and isRunning false, and a failed run has executed no node
\* later in its order than the failing one and has written to none
C1_FailFast ==
  /\ [][\A r \in Runs : FailsNow(r) =>
          LET failing == GetNodeById(nodes', Node(runs'[r]).id) IN
          /\ failing.data.status = "error"
          /\ ~Falsy(failing.data.error)
          /\ ~isRunning']_vars
  /\ [](\A r \in DOMAIN runs :
          (runs[r].op = "executeWorkflow" /\ runs[r].outcome = "failed") =>
            /\ ~Alive(runs[r])
            /\ Later(runs[r].sorted, runs[r].i)
                 \cap (SeqToSet(runs[r].executed) \cup runs[r].wrote) = {})

\* a run failed on the service's answer at a node that is not the last of its order
C1_Witness ==
  \E r \in DOMAIN runs :
    /\ runs[r].op = "executeWorkflow"
    /\ runs[r].outcome = "failed"
    /\ Later(runs[r].sorted, runs[r].i) # {}
    /\ GetNodeById(nodes, Node(runs[r]).id).data.status = "error"
    /\ GetNodeById(nodes, Node(runs[r]).id).data.error = "quota exceeded"

\* executeWorkflow passes its guard in this step and becomes run r, on a graph
\* with a cycle
SortsCycleNow(r) ==
  /\ r = Len(runs) + 1
  /\ Len(runs') = r
  /\ runs'[r].op = "executeWorkflow"
  /\ ~Acyclic(edges)

\* C3: executeWorkflow on a graph with a cycle ends in the step of its sort, with no
\* node changed, isRunning false and currentNodeId null, and the run it was has
\* executed no node, written to none and has no call in flight
C3_CycleAborts ==
  /\ [][\A r \in Runs : SortsCycleNow(r) =>
          /\ runs'[r].outcome = "cycle"
          /\ nodes' = nodes
          /\ ~isRunning'
          /\ currentNodeId' = NULL
          /\ \A q \in DOMAIN runs : runs'[q] = runs[q]]_vars
  /\ [](\A r \in DOMAIN runs :
          runs[r].outcome = "cycle" =>
            /\ ~Alive(runs[r])
            /\ runs[r].executed = <<>>
            /\ runs[r].wrote = {}
            /\ runs[r].resolved = <<>>)

\* executeWorkflow was called, after an earlier call, on a graph with a self-loop
C3_Witness ==
  \E r \in DOMAIN runs :
    /\ runs[r].outcome = "cycle"
    /\ r > 1
    /\ \E k \in DOMAIN edges : edges[k].source = edges[k].target

\* executeWorkflow was called on a graph with a cycle through two nodes
C3_WitnessTwoNodes ==
  \E r \in DOMAIN runs :
    /\ runs[r].outcome = "cycle"
    /\ \A k \in DOMAIN edges : edges[k].source # edges[k].target

\* some edge into the node carries hasPause
HasIncomingPause(es, id) == \E k \in DOMAIN es : es[k].target = id /\ es[k].hasPause

\* the node is the entry of a pass that resumes from it
IsResumeEntry(R, id) == R.isResuming /\ id = R.startFromNodeId

\* the loop of run r stands, with the run flag set, at a node with an incoming
\* pause edge that is not the pass's resume entry
ReachesPauseNode(r) ==
  /\ active = r
  /\ runs[r].op = "executeWorkflow"
  /\ runs[r].pc = "loop"
  /\ ~AtEnd(runs[r])
  /\ isRunning
  /\ HasIncomingPause(runs[r].edges, Node(runs[r]).id)
  /\ ~IsResumeEntry(runs[r], Node(runs[r]).id)

\* C4: a pass that reaches a node with an incoming pause edge, not its resume entry,
\* ends there with pausedAtNodeId set to that node and isRunning false and without
\* executing it; no pass executes such a node, and a paused pass has executed no
\* node at or after the one it paused at
C4_PauseBeforeNode ==
  /\ [][\A r \in Runs : ReachesPauseNode(r) =>
          /\ runs'[r].outcome = "paused"
          /\ pausedAtNodeId' = Node(runs[r]).id
          /\ ~isRunning'
          /\ runs'[r].executed = runs[r].executed
          /\ nodes' = nodes]_vars
  /\ [](\A r \in DOMAIN runs :
          runs[r].op = "executeWorkflow" =>
            /\ \A k \in DOMAIN runs[r].executed :
                 HasIncomingPause(runs[r].edges, runs[r].executed[k]) =>
                   IsResumeEntry(runs[r], runs[r].executed[k])
            /\ runs[r].outcome = "paused" =>
                 /\ ~Alive(runs[r])
                 /\ Later(runs[r].sorted, runs[r].i - 1) \cap SeqToSet(runs[r].executed) = {})

\* a pass executed a node and then paused at a node whose pause edge is not the
\* first of its incoming edges
C4_Witness ==
  \E r \in DOMAIN runs :
    /\ runs[r].outcome = "paused"
    /\ runs[r].executed # <<>>
    /\ pausedAtNodeId = Node(runs[r]).id
    /\ ~ShouldPauseFirstEdge(runs[r])

\* the first iteration of the run's loop has been taken
Started(R) == R.outcome # "cycle" /\ (R.i > R.startIndex \/ R.pc # "loop")

\* C5 as stated: a pass that resumes from p executes p
C5_ResumeExecutesEntry ==
  \A r \in DOMAIN runs :
    (runs[r].isResuming /\ Started(runs[r])) =>
      runs[r].startFromNodeId \in SeqToSet(runs[r].executed)

\* C5: a pass that resumes from p does not pause at p: it executes p, or skips it
\* when p's group is locked; it executes no other node with an incoming pause edge,
\* and when it pauses, it pauses at a node later in the order than p
C5_ResumeMakesProgress ==
  \A r \in DOMAIN runs :
    (runs[r].isResuming /\ Started(runs[r])) =>
      LET R == runs[r]
          p == R.startFromNodeId
          entry == [R EXCEPT !.i = R.startIndex]
      IN /\ R.sorted[R.startIndex].id = p
         /\ HasIncomingPause(R.edges, p)
         /\ (p \in SeqToSet(R.executed)) <=> ~InLockedGroup(entry)
         /\ InLockedGroup(entry) => p \notin R.wrote
         /\ \A k \in DOMAIN R.executed :
              HasIncomingPause(R.edges, R.executed[k]) => R.executed[k] = p
         /\ R.outcome = "paused" => R.i > R.startIndex

\* a pass resumed from the node the one before paused at, executed it, and paused
\* again at a later node
C5_Witness ==
  \E r \in DOMAIN runs :
    /\ runs[r].isResuming
    /\ runs[r].startFromNodeId \in SeqToSet(runs[r].executed)
    /\ runs[r].outcome = "paused"
    /\ runs[r].i > runs[r].startIndex
    /\ r > 1
    /\ runs[r - 1].outcome = "paused"

\* the positions of a run's order whose node is in a locked group
LockedPositions(R) == {k \in DOMAIN R.sorted : InLockedGroup([R EXCEPT !.i = k])}

\* C6 as stated: a pass writes to no node of its order that is in a locked group,
\* and a node the pass executes downstream of one resolves the image that node had
\* when the pass started
C6_LockedNodeUnchanged ==
  \A r \in DOMAIN runs :
    runs[r].op = "executeWorkflow" =>
      \A k \in LockedPositions(runs[r]) :
        LET R == runs[r]
            lockedNode == R.sorted[k]
        IN /\ lockedNode.id \notin R.wrote
           /\ lockedNode.id \notin SeqToSet(R.executed)
           /\ \A j \in DOMAIN R.resolved :
                (/\ ~Falsy(SourceImage(lockedNode))
                 /\ \E e \in DOMAIN R.edges :
                      /\ R.edges[e].source = lockedNode.id
                      /\ R.edges[e].target = R.resolved[j].id
                      /\ R.edges[e].targetHandle = "image")
                  => SourceImage(lockedNode) \in SeqToSet(R.resolved[j].images)

\* a call is made in this step while the run flag is set
CallsWhileRunning == calls' = calls + 1 /\ isRunning

\* C7: a call of executeWorkflow or regenerateNode made while isRunning is true
\* starts no run and no service call and leaves the nodes, isRunning, currentNodeId
\* and pausedAtNodeId as they are
C7_CallWhileRunningIgnored ==
  [][CallsWhileRunning =>
       /\ runs' = runs
       /\ active' = active
       /\ nodes' = nodes
       /\ isRunning' = isRunning
       /\ currentNodeId' = currentNodeId
       /\ pausedAtNodeId' = pausedAtNodeId]_vars

\* a call was ignored while a generation of the running pass is in flight
C7_Witness ==
  /\ calls > Len(runs)
  /\ isRunning
  /\ \E r \in DOMAIN runs : runs[r].pc = "generate"

\* run r is waiting for a service to answer
InFlight(R) == R.pc \in {"generate", "llm"}

\* C8 as stated: at most one service call is in flight at a time, whatever calls of
\* executeWorkflow, regenerateNode and stopWorkflow were made
C8_SingleRun ==
  Cardinality({r \in DOMAIN runs : InFlight(runs[r])}) <= 1

\* C9 as stated: a run that stopWorkflow was called on enters no further node
C9_StoppedRunStartsNoNode ==
  \A r \in DOMAIN runs :
    runs[r].stopped => Len(runs[r].executed) = runs[r].executedAtStop

\* the answer to a generation call of run r arrives in this step, after stopWorkflow
\* was called on the run
AnsweredAfterStop(r) ==
  /\ r \in DOMAIN runs
  /\ runs[r].stopped
  /\ runs[r].pc = "generate"
  /\ runs'[r].pc # "generate"

\* C10: the answer to a generation call in flight when stopWorkflow was called is
\* written when it arrives: the node becomes complete with the image, a new head of
\* its history and of the global history and a higher incurred cost, or it becomes
\* error with a non-empty message
C10_ResponseAfterStopWritten ==
  [][\A r \in Runs : AnsweredAfterStop(r) =>
       LET after == GetNodeById(nodes', Node(runs[r]).id).data
       IN \/ /\ after.status = "complete"
             /\ ~Falsy(after.outputImage)
             /\ after.error = NULL
             /\ after.imageHistory # <<>>
             /\ after.imageHistory[1].timestamp = now
             /\ globalImageHistory' # <<>>
             /\ globalImageHistory'[1].image = after.outputImage
             /\ Len(globalImageHistory') = Len(globalImageHistory) + 1
             /\ incurredCost' > incurredCost
          \/ /\ after.status = "error"
             /\ ~Falsy(after.error)
             /\ UNCHANGED <<globalImageHistory, incurredCost>>]_vars

\* a pass was stopped with its generation in flight, the image arrived with the
\* run flag off, and the pass ended at its next check of the flag
C10_Witness ==
  \E r \in DOMAIN runs :
    /\ runs[r].op = "executeWorkflow"
    /\ runs[r].stopped
    /\ runs[r].outcome = "stopped"
    /\ runs[r].executedAtStop = Len(runs[r].executed)
    /\ Len(runs) = 1
    /\ GetNodeById(nodes, runs[r].executed[Len(runs[r].executed)]).data.status = "complete"
    /\ globalImageHistory # <<>>
    /\ incurredCost > 0

\* run r of executeWorkflow resolves the inputs of a node of this kind in this step
ResolvesNow(r, type) ==
  /\ r \in DOMAIN runs
  /\ runs[r].op = "executeWorkflow"
  /\ Len(runs'[r].resolved) = Len(runs[r].resolved) + 1
  /\ Node(runs[r]).type = type

\* the inputs run r resolved in this step
NewInputs(r) == runs'[r].resolved[Len(runs'[r].resolved)]

\* the step leaves the node of run r in error with this message and the run failed,
\* with nothing awaited
FailsWith(r, message) ==
  LET after == GetNodeById(nodes', Node(runs[r]).id).data
  IN /\ after.status = "error"
     /\ after.error = message
     /\ runs'[r].outcome = "failed"
     /\ runs'[r].pc = "done"
     /\ ~isRunning'

\* the step leaves the node of run r loading and the run waiting for the service
SendsRequest(r, pc) ==
  LET after == GetNodeById(nodes', Node(runs[r]).id).data
  IN /\ after.status = "loading"
     /\ after.error = NULL
     /\ runs'[r].pc = pc
     /\ runs'[r].outcome = ""
     /\ isRunning'

\* C11 as stated: an image-generate node reached by a run fails with "Missing image
\* or text input" and no request exactly when its resolved image list is empty or
\* its resolved text is null; otherwise a request is sent
C11_FailsExactlyOnNullText ==
  [][\A r \in Runs : ResolvesNow(r, "nanoBanana") =>
       IF NewInputs(r).images = <<>> \/ NewInputs(r).text = NULL
       THEN FailsWith(r, "Missing image or text input")
       ELSE SendsRequest(r, "generate")]_vars

\* C11 amended: an image-generate node reached by a run fails with "Missing image or
\* text input" and no request exactly when its resolved image list is empty or its
\* resolved text is null or the empty string; otherwise a request is sent
C11_FailsExactlyOnMissingInput ==
  [][\A r \in Runs : ResolvesNow(r, "nanoBanana") =>
       IF NewInputs(r).images = <<>> \/ NewInputs(r).text \in {NULL, ""}
       THEN FailsWith(r, "Missing image or text input")
       ELSE SendsRequest(r, "generate")]_vars

\* a run failed at an image-generate node that had an image and the text of an
\* empty prompt
C11_Witness ==
  \E r \in DOMAIN runs :
    /\ runs[r].outcome = "failed"
    /\ runs[r].pc = "done"
    /\ runs[r].resolved # <<>>
    /\ LET inputs == runs[r].resolved[Len(runs[r].resolved)]
           node == GetNodeById(nodes, inputs.id)
       IN /\ node.type = "nanoBanana"
          /\ inputs.images # <<>>
          /\ inputs.text = ""
          /\ node.data.status = "error"
          /\ node.data.error = "Missing image or text input"

\* the indices, in edge-array order, of the edges into nodeId at one of the handles
EdgesInto(es, nodeId, handles) ==
  SelectSeqIdx(es, {e \in SeqToSet(es) : e.target = nodeId /\ e.targetHandle \in handles}, 1)

\* the node an edge comes from
SourceOf(ns, edge) == GetNodeById(ns, edge.source)

SourceText(sourceNode) ==
  CASE sourceNode.type = "prompt" -> sourceNode.data.prompt
    [] sourceNode.type = "llmGenerate" -> sourceNode.data.outputText
    [] OTHER -> NULL

\* C13: when two or more edges come into the text handle of a node,
\* getConnectedInputs returns the text output of the last of them in edge-array
\* order, whatever the earlier ones offer
C13_LastTextWins ==
  LET idx == EdgesInto(edges, InputTarget.id, {"text"})
  IN Len(idx) >= 2 =>
       GetConnectedInputs(nodes, edges, InputTarget.id).text
         = SourceText(SourceOf(nodes, edges[idx[Len(idx)]]))

\* a generator with an empty prompt on its first text edge and a written prompt on
\* its last one sent a request with the written prompt
C13_Witness ==
  LET idx == EdgesInto(edges, InputTarget.id, {"text"})
  IN /\ Len(idx) >= 2
     /\ edges[idx[1]].source = "prompt-2"
     /\ edges[idx[Len(idx)]].source = "prompt-1"
     /\ \E r \in DOMAIN runs :
          /\ runs[r].pc = "generate"
          /\ runs[r].text = "draw a cat"
          /\ InputTarget.data.inputPrompt = "draw a cat"

\* the successful generations on the node id: the places of id in the runs' logs
GenerationsOn(id) ==
  UNION {{<<r, j>> : j \in {j \in DOMAIN runs[r].generated : runs[r].generated[j] = id}} :
           r \in DOMAIN runs}

RECURSIVE GenerationCosts(_)
\* the pricing lookups of the successful generations on the first k nodes
GenerationCosts(k) ==
  IF k = 0 THEN 0
  ELSE GenerationCosts(k - 1)
         + (IF nodes[k].type = "nanoBanana"
            THEN Cardinality(GenerationsOn(nodes[k].id))
                   * CalculateGenerationCost(nodes[k].data.model, nodes[k].data.resolution)
            ELSE 0)

\* C14 as stated: after k successful generations on a node its imageHistory holds k
\* items more than the loaded document's (whose items carry timestamp 0), newest
\* first, selectedHistoryIndex is 0, and incurredCost is the sum of the pricing
\* lookups of all successful generations
C14_HistoryHoldsEveryGeneration ==
  /\ \A k \in DOMAIN nodes :
       nodes[k].type = "nanoBanana" =>
         LET history == nodes[k].data.imageHistory
             done == Cardinality(GenerationsOn(nodes[k].id))
         IN /\ Cardinality({j \in DOMAIN history : history[j].timestamp >= 1}) = done
            /\ \A j \in 1..(Len(history) - 1) :
                 history[j].timestamp > history[j + 1].timestamp
            /\ done > 0 => nodes[k].data.selectedHistoryIndex = 0
  /\ incurredCost = GenerationCosts(Len(nodes))

\* the answer to the generation call of run r arrives in this step and leaves the
\* node complete
GenerationSucceeds(r) ==
  /\ r \in DOMAIN runs
  /\ runs[r].pc = "generate"
  /\ runs'[r].pc # "generate"
  /\ GetNodeById(nodes', Node(runs[r]).id).data.status = "complete"

\* the step puts the image of run r's node at the head of the global history and
\* adds the pricing lookup of the node's model and resolution to the incurred cost
AddsOneGeneration(r) ==
  LET after == GetNodeById(nodes', Node(runs[r]).id).data
  IN /\ Len(globalImageHistory') = Len(globalImageHistory) + 1
     /\ Tail(globalImageHistory') = globalImageHistory
     /\ globalImageHistory'[1].image = after.outputImage
     /\ incurredCost' = incurredCost + CalculateGenerationCost(after.model, after.resolution)

\* C15: a step changes incurredCost or globalImageHistory only when the answer to
\* an image generation call arrives and leaves the node complete, and every such
\* step adds exactly one global history item and one pricing lookup; every other
\* step (validation failure, failed or refused call, exception, pause, locked
\* skip, stop, text generation, split) leaves both unchanged
C15_CostOnlyOnGenerationSuccess ==
  [][/\ (globalImageHistory' # globalImageHistory \/ incurredCost' # incurredCost) =>
          \E r \in Runs : GenerationSucceeds(r)
     /\ \A r \in Runs : GenerationSucceeds(r) => AddsOneGeneration(r)]_vars

\* a full run generated a text and then one image, after an earlier call had
\* failed: one global history item and one pricing lookup
C15_Witness ==
  /\ Len(runs) = 2
  /\ runs[1].outcome = "failed"
  /\ runs[2].generated = <<"nanoBanana-1">>
  /\ "llmGenerate-1" \in runs[2].wrote
  /\ runs[2].outcome = "completed"
  /\ Len(globalImageHistory) = 1
  /\ incurredCost = CalculateGenerationCost("nano-banana-pro", "1K")

\* C16 as stated: after a run paused at node p, a call executes no node unless it
\* is executeWorkflow with p as its entry node
C16_NothingRunsUntilResumed ==
  \A r \in DOMAIN runs :
    (runs[r].pausedAtCall # NULL
       /\ ~(runs[r].op = "executeWorkflow" /\ runs[r].startFromNodeId = runs[r].pausedAtCall)) =>
      runs[r].executed = <<>>

\* C17 as stated: when every edge into a node at its content or style handle comes
\* from a node that holds an output image, getConnectedInputs returns one image per
\* such edge, in edge-array order, as it does for the image handle
C17_ContentAndStyleResolved ==
  LET idx == EdgesInto(edges, InputTarget.id, {"image", "content", "style", NULL})
  IN (\A k \in DOMAIN idx : /\ FindIndex(nodes, edges[idx[k]].source) # 0
                             /\ ~Falsy(SourceImage(SourceOf(nodes, edges[idx[k]])))) =>
       /\ Len(GetConnectedInputs(nodes, edges, InputTarget.id).images) = Len(idx)
       /\ \A k \in DOMAIN idx :
            GetConnectedInputs(nodes, edges, InputTarget.id).images[k]
              = SourceImage(SourceOf(nodes, edges[idx[k]]))

\* run r of executeWorkflow enters a node of this kind in this step
EntersNow(r, type) ==
  /\ r \in DOMAIN runs
  /\ runs[r].op = "executeWorkflow"
  /\ Len(runs'[r].executed) = Len(runs[r].executed) + 1
  /\ Node(runs[r]).type = type

\* C18 as stated: a style transfer node reached by a run fails with "Missing image
\* or text input" and halts the run when it has no resolved image or a null
\* resolved text, and goes to loading otherwise
C18_StyleTransferExecuted ==
  [][\A r \in Runs : EntersNow(r, "styleTransfer") =>
       LET inputs == GetConnectedInputs(nodes, edges, Node(runs[r]).id)
       IN IF inputs.images = <<>> \/ inputs.text = NULL
          THEN FailsWith(r, "Missing image or text input")
          ELSE GetNodeById(nodes', Node(runs[r]).id).data.status = "loading"]_vars

\* the answer to the text generation call of run r of executeWorkflow arrives in
\* this step
TextAnswered(r) ==
  /\ r \in DOMAIN runs
  /\ runs[r].op = "executeWorkflow"
  /\ runs[r].pc = "llm"
  /\ runs'[r].pc # "llm"

\* the answer either is stored as the node's outputText with status complete and no
\* error, the run going on, or it leaves the node in error with a message and its
\* outputText as it was, the run failed
TextStoredOrFailed(r) ==
  LET before == GetNodeById(nodes, Node(runs[r]).id).data
      after == GetNodeById(nodes', Node(runs[r]).id).data
  IN \/ /\ after.status = "complete"
        /\ after.outputText = "text-" \o ToString(r)
        /\ after.error = NULL
        /\ runs'[r].outcome # "failed"
     \/ /\ after.status = "error"
        /\ ~Falsy(after.error)
        /\ after.outputText = before.outputText
        /\ runs'[r].outcome = "failed"

\* C19 as stated: a text-generate node reached by a run fails with no request when
\* its resolved text is null and sends its request when the text is not null,
\* whatever images are resolved; the answer is stored as outputText with status
\* complete and error null, or fails the run
C19_FailsExactlyOnNullText ==
  [][\A r \in Runs :
       /\ ResolvesNow(r, "llmGenerate") =>
            IF NewInputs(r).text = NULL
            THEN FailsWith(r, "Missing text input")
            ELSE SendsRequest(r, "llm")
       /\ TextAnswered(r) => TextStoredOrFailed(r)]_vars

\* C19 amended: a text-generate node reached by a run fails with "Missing text
\* input" and no request when its resolved text is null or the empty string and
\* sends its request when the text is not empty, whatever images are resolved; the
\* answer is stored as outputText with status complete and error null, or fails
\* the run
C19_FailsExactlyOnMissingText ==
  [][\A r \in Runs :
       /\ ResolvesNow(r, "llmGenerate") =>
            IF NewInputs(r).text \in {NULL, ""}
            THEN FailsWith(r, "Missing text input")
            ELSE SendsRequest(r, "llm")
       /\ TextAnswered(r) => TextStoredOrFailed(r)]_vars

\* a text-generate node with a written prompt and no resolved image sent its
\* request and got its answer stored, and the run went on to its end
C19_Witness ==
  \E r \in DOMAIN runs :
    /\ runs[r].resolved # <<>>
    /\ LET inputs == runs[r].resolved[Len(runs[r].resolved)]
           node == GetNodeById(nodes, inputs.id)
       IN /\ node.type = "llmGenerate"
          /\ inputs.images = <<>>
          /\ inputs.text = "draw a cat"
          /\ node.data.inputPrompt = "draw a cat"
          /\ node.data.status = "complete"
          /\ node.data.outputText = "text-" \o ToString(r)
          /\ node.data.error = NULL
          /\ runs[r].outcome = "completed"

\* the image-source nodes a split node writes its cells into
ChildIds(node) == {node.data.childNodeIds[k].imageInput : k \in DOMAIN node.data.childNodeIds}

\* C20: a grid-split node reached by a run with no resolved image, or not
\* configured, gets status error with a message, the run fails with isRunning
\* false and no node but the split node changes; a configured node with a resolved
\* image goes to loading and awaits the splitter; and a run writes a child
\* image-source node only from a configured split node with a resolved image
C20_SplitValidation ==
  /\ [][\A r \in Runs : ResolvesNow(r, "splitGrid") =>
          LET node == Node(runs[r])
              after == GetNodeById(nodes', node.id).data
          IN IF NewInputs(r).images = <<>> \/ ~node.data.isConfigured
             THEN /\ after.status = "error"
                  /\ ~Falsy(after.error)
                  /\ runs'[r].outcome = "failed"
                  /\ runs'[r].pc = "done"
                  /\ ~isRunning'
                  /\ \A k \in DOMAIN nodes : nodes[k].id # node.id => nodes'[k] = nodes[k]
             ELSE SendsRequest(r, "split")]_vars
  /\ [](\A r \in DOMAIN runs : \A k \in DOMAIN runs[r].sorted :
          (runs[r].sorted[k].type = "splitGrid"
             /\ runs[r].wrote \cap ChildIds(runs[r].sorted[k]) # {}) =>
            /\ runs[r].sorted[k].data.isConfigured
            /\ runs[r].images # <<>>
            /\ runs[r].outcome # "failed")

\* a configured split node whose only image edge comes from an image source
\* without an image failed the run, and its child holds no cell
C20_Witness ==
  \E r \in DOMAIN runs :
    /\ InputTarget.type = "splitGrid"
    /\ InputTarget.data.isConfigured
    /\ edges # <<>>
    /\ runs[r].resolved # <<>>
    /\ runs[r].resolved[Len(runs[r].resolved)].images = <<>>
    /\ InputTarget.data.status = "error"
    /\ InputTarget.data.error = "No input image connected"
    /\ runs[r].outcome = "failed"
    /\ ~isRunning
    /\ \A id \in ChildIds(InputTarget) : GetNodeById(nodes, id).data.image = NULL

-----------------------------------------------------------------------------
(* Runs started from a node of the graph *)

\* the grid split of SplitWorkflow, configured, in a document that lists the child
\* image source and the output it feeds before the sheet and the split node
EntrySplitWorkflow ==
  [nodes |-> << MkNode("imageInput-2", "imageInput", <<>>),
                MkNode("output-1", "output", <<>>),
                MkNode("imageInput-1", "imageInput", [image |-> "sheet"]),
                MkNode("splitGrid-1", "splitGrid",
                       [isConfigured |-> TRUE, gridRows |-> 1, gridCols |-> 1,
                        childNodeIds |-> << [imageInput |-> "imageInput-2"] >>]) >>,
   edges |-> << MkEdge("imageInput-2", "output-1", "image"),
                MkEdge("imageInput-1", "splitGrid-1", "image") >>]

EntryInit ==
  \E w \in {ChainWorkflow("photo"), EntrySplitWorkflow} :
    \E locked \in SUBSET {"nanoBanana-1"} : InitStore(WithPauseAndLock(w, {}, locked))

\* handleRunFromSelected: executeWorkflow(selectedNode.id)
EntryNext ==
  \/ \E e \in NodeIds(nodes) : ExecuteWorkflow(e)
  \/ \E r \in Runs : LoopExit(r)
  \/ \E r \in Runs : SkipLocked(r)
  \/ \E r \in Runs : ExecutePassThrough(r)
  \/ \E r \in Runs : ExecuteOutput(r)
  \/ \E r \in Runs : ExecuteNanoBanana(r)
  \/ \E r \in Runs : ExecuteSplitGrid(r)
  \/ \E r \in Runs : SplitLoopSkip(r)
  \/ \E r \in Runs : SplitLoopAwait(r)
  \/ \E r \in Runs : SplitLoopEnd(r)
  \/ \E r \in Runs : \E resp \in GenerateResponses(r) : GenerateResponse(r, resp)
  \/ \E r \in Runs : \E resp \in SplitResponses(r) : SplitResponse(r, resp)
  \/ \E r \in Runs : \E loaded \in BOOLEAN : ChildImageSettled(r, loaded)

EntrySpec == EntryInit /\ [][EntryNext]_vars

\* the position of the entry node of run R in its order, 0 when the run has none
EntryIndex(R) ==
  IF Falsy(R.startFromNodeId) THEN 0 ELSE FindIndex(R.sorted, R.startFromNodeId)

\* the executeWorkflow runs started from a node present in the graph
EntryRuns ==
  {r \in DOMAIN runs : /\ runs[r].op = "executeWorkflow"
                       /\ runs[r].outcome # "cycle"
                       /\ EntryIndex(runs[r]) # 0}

\* the ids at the positions of the order of R from its entry on
FromEntry(R) == {R.sorted[j].id : j \in EntryIndex(R)..Len(R.sorted)}

\* the nodes R has visited lie at increasing positions from the entry on, and
\* every position from the entry up to a visited one is visited or locked
VisitedInOrderFromEntry(R) ==
  /\ \A k \in DOMAIN R.executed :
       /\ FindIndex(R.sorted, R.executed[k]) >= EntryIndex(R)
       /\ k > 1 => FindIndex(R.sorted, R.executed[k - 1]) < FindIndex(R.sorted, R.executed[k])
       /\ \A j \in EntryIndex(R)..FindIndex(R.sorted, R.executed[k]) :
            R.sorted[j].id \in SeqToSet(R.executed) \/ j \in LockedPositions(R)
  /\ R.executed # <<>> =>
       \A j \in EntryIndex(R)..(FindIndex(R.sorted, R.executed[1]) - 1) :
         j \in LockedPositions(R)

\* the child image sources of the grid-split nodes R has visited
SplitChildren(R) ==
  UNION {ChildIds(R.sorted[j]) :
           j \in {k \in DOMAIN R.sorted : /\ R.sorted[k].type = "splitGrid"
                                          /\ R.sorted[k].id \in SeqToSet(R.executed)}}

\* C22 as stated: a run started from a node of the graph executes and modifies no
\* node at a smaller position of its order than the entry, and visits the nodes
\* from the entry on in order
C22_NothingBeforeEntryTouched ==
  \A r \in EntryRuns :
    /\ VisitedInOrderFromEntry(runs[r])
    /\ runs[r].wrote \subseteq FromEntry(runs[r])

\* C22: a run started from a node of the graph starts at the position of that
\* node in its order: it executes no node at a smaller position, it visits the
\* nodes from the entry on in order (locked ones skipped), and the only nodes at a
\* smaller position it modifies are child image sources of a grid split it visited
C22_StartsAtEntry ==
  \A r \in EntryRuns :
    /\ runs[r].startIndex = EntryIndex(runs[r])
    /\ VisitedInOrderFromEntry(runs[r])
    /\ runs[r].wrote \subseteq FromEntry(runs[r]) \cup SplitChildren(runs[r])

\* a run started from the sheet, third in its order, has completed having visited
\* the sheet and the split node and written the cell into the child image source
\* at the first position
C22_Witness ==
  \E r \in EntryRuns :
    /\ runs[r].startFromNodeId = "imageInput-1"
    /\ runs[r].startIndex = 3
    /\ runs[r].outcome = "completed"
    /\ runs[r].executed = <<"imageInput-1", "splitGrid-1">>
    /\ "imageInput-2" \in runs[r].wrote
    /\ GetNodeById(nodes, "imageInput-2").data.image # NULL

\* the number of times the session of run r was posted to /api/logs
TimesPosted(r) ==
  Cardinality({k \in DOMAIN postedSessions : postedSessions[k] = GenerateSessionId(r)})

\* C23: the session of every run that has ended, by completion, pause or failure,
\* has been posted to the log sink exactly once; the session of a run in progress
\* has not been posted; and the logger holds no open session once no run is in
\* progress
C23_SessionPostedOnceAtEnd ==
  /\ \A r \in DOMAIN runs :
       TimesPosted(r) = IF runs[r].pc = "done" THEN 1 ELSE 0
  /\ (\A r \in DOMAIN runs : runs[r].pc = "done") => currentSession = NULL

-----------------------------------------------------------------------------
(* Auto-save of a project while a run is in progress *)

\* the WorkflowFile saveToFile builds from the store
WorkflowFile == [nodes |-> nodes, edges |-> edges]

\* saveToFile() up to its await of the /api/workflow request, or to its return of
\* false when the id, the name or the directory is missing
SaveToFile ==
  /\ active = 0
  /\ saveCalls < MaxSaves
  /\ saveCalls' = saveCalls + 1
  /\ IF Falsy(workflowId) \/ Falsy(workflowName) \/ Falsy(saveDirectoryPath)
     THEN UNCHANGED <<isSaving, saving>>
     ELSE /\ isSaving' = TRUE
          /\ saving' = Append(saving, WorkflowFile)
  /\ UNCHANGED <<store, now, runs, active, calls, logging, canvas, workflowId, workflowName,
                 saveDirectoryPath, lastSavedAt, savedFile, generationsPath, costData,
                 generationSaves>>

\* a tick of the interval of initializeAutoSave whose guard passes: saveToFile()
AutoSave ==
  /\ hasUnsavedChanges
  /\ ~Falsy(workflowId)
  /\ ~Falsy(workflowName)
  /\ ~Falsy(saveDirectoryPath)
  /\ ~isSaving
  /\ SaveToFile

\* a saveToFile without its catch block: a request that throws leaves the flag set
SaveResponseUncaught(k, result) ==
  /\ active = 0
  /\ k \in DOMAIN saving
  /\ isSaving' = IF result = "throw" THEN isSaving ELSE FALSE
  /\ saving' = [j \in 1..(Len(saving) - 1) |-> IF j < k THEN saving[j] ELSE saving[j + 1]]
  /\ savedFile' = IF result = "success" THEN saving[k] ELSE savedFile
  /\ hasUnsavedChanges' = IF result = "success" THEN FALSE ELSE hasUnsavedChanges
  /\ lastSavedAt' = IF result = "success" THEN Timestamp(now) ELSE lastSavedAt
  /\ now' = IF result = "success" THEN now + 1 ELSE now
  /\ UNCHANGED <<nodes, edges, groups, isRunning, currentNodeId, pausedAtNodeId,
                 globalImageHistory, incurredCost, runs, active, calls, logging,
                 canvas, workflowId, workflowName, saveDirectoryPath, saveCalls,
                 generationsPath, costData, generationSaves>>

\* saveToFile from the answer of the k-th /api/workflow request in flight on: the
\* route wrote the document it was sent and answers success, or wrote nothing and
\* answers an error, or the request throws
SaveResponse(k, result) ==
  /\ active = 0
  /\ k \in DOMAIN saving
  /\ isSaving' = FALSE
  /\ saving' = [j \in 1..(Len(saving) - 1) |-> IF j < k THEN saving[j] ELSE saving[j + 1]]
  /\ savedFile' = IF result = "success" THEN saving[k] ELSE savedFile
  /\ hasUnsavedChanges' = IF result = "success" THEN FALSE ELSE hasUnsavedChanges
  /\ lastSavedAt' = IF result = "success" THEN Timestamp(now) ELSE lastSavedAt
  /\ now' = IF result = "success" THEN now + 1 ELSE now
  /\ UNCHANGED <<nodes, edges, groups, isRunning, currentNodeId, pausedAtNodeId,
                 globalImageHistory, incurredCost, runs, active, calls, logging,
                 canvas, workflowId, workflowName, saveDirectoryPath, saveCalls,
                 generationsPath, costData, generationSaves>>

\* the chain workflow loaded from its file in a project with a save directory
SaveInit ==
  LET w == WithPauseAndLock(ChainWorkflow("photo"), {}, {})
  IN InitProject(w, "wf-1", "/projects", NULL, {}, [nodes |-> w.nodes, edges |-> w.edges])

SaveNext ==
  \/ ExecuteWorkflow(NULL)
  \/ \E r \in Runs : LoopExit(r)
  \/ \E r \in Runs : ExecutePassThrough(r)
  \/ \E r \in Runs : ExecuteNanoBanana(r)
  \/ \E r \in Runs : \E resp \in GenerateResponses(r) : GenerateResponse(r, resp)
  \/ AutoSave
  \/ \E k \in 1..MaxSaves : \E result \in {"success", "failure", "throw"} :
       SaveResponse(k, result)

SaveSpec == SaveInit /\ [][SaveNext]_vars

\* C24: whenever hasUnsavedChanges is false, the workflow document written last
\* holds the nodes and edges of the store, so that no mutation is missing from it,
\* those made while a save was in flight included
C24_SavedWhenClean ==
  ~hasUnsavedChanges => savedFile = WorkflowFile

-----------------------------------------------------------------------------
(* The cost total of a project and its copy in localStorage *)

WorkflowIds == {"wf-1", "wf-2"}

\* the costs of one generation at the default resolution
Prices == {CalculateGenerationCost(model, "1K") : model \in {"nano-banana", "nano-banana-pro"}}

\* an addIncurredCost that stores the cost of the call in place of the total
AddIncurredCostStoresCall(cost) ==
  /\ active = 0
  /\ incurredCost + cost <= MaxIncurredCost
  /\ incurredCost' = incurredCost + cost
  /\ SaveIncurredCost(cost)
  /\ UNCHANGED <<nodes, edges, groups, isRunning, currentNodeId, pausedAtNodeId,
                 globalImageHistory, hasUnsavedChanges, now, runs, active, calls, logging,
                 project, generationSaves, canvas>>

\* addIncurredCost(cost)
AddIncurredCost(cost) ==
  /\ active = 0
  /\ incurredCost + cost <= MaxIncurredCost
  /\ incurredCost' = incurredCost + cost
  /\ SaveIncurredCost(incurredCost')
  /\ UNCHANGED <<nodes, edges, groups, isRunning, currentNodeId, pausedAtNodeId,
                 globalImageHistory, hasUnsavedChanges, now, runs, active, calls, logging,
                 project, generationSaves, canvas>>

\* resetIncurredCost()
ResetIncurredCost ==
  /\ active = 0
  /\ incurredCost' = 0
  /\ SaveIncurredCost(incurredCost')
  /\ UNCHANGED <<nodes, edges, groups, isRunning, currentNodeId, pausedAtNodeId,
                 globalImageHistory, hasUnsavedChanges, now, runs, active, calls, logging,
                 project, generationSaves, canvas>>

\* loadIncurredCost(id)
LoadIncurredCost(id) ==
  /\ active = 0
  /\ incurredCost' = LoadWorkflowCostData(costData, id)
  /\ UNCHANGED <<nodes, edges, groups, isRunning, currentNodeId, pausedAtNodeId,
                 globalImageHistory, hasUnsavedChanges, now, runs, active, calls, logging,
                 persistence, canvas>>

\* loadWorkflow(workflow) of the document w with the id, whose save configuration
\* localStorage holds, written by a save at clock reading 0
LoadWorkflow(w, id) ==
  /\ active = 0
  /\ nodeIdCounter' = MaxNodeId(w.nodes)
  /\ nodes' = w.nodes
  /\ edges' = w.edges
  /\ groups' = w.groups
  /\ isRunning' = FALSE
  /\ currentNodeId' = NULL
  /\ workflowId' = id
  /\ workflowName' = DocumentName
  /\ saveDirectoryPath' = IF Falsy(id) THEN NULL ELSE "/projects"
  /\ generationsPath' = NULL
  /\ lastSavedAt' = IF Falsy(id) THEN NULL ELSE Timestamp(0)
  /\ hasUnsavedChanges' = FALSE
  /\ incurredCost' = IF Falsy(id) THEN 0 ELSE LoadWorkflowCostData(costData, id)
  /\ UNCHANGED <<pausedAtNodeId, globalImageHistory, now, runs, active, calls, logging,
                 isSaving, saveCalls, saving, savedFile, costData, generationSaves, edits>>

\* clearWorkflow()
ClearWorkflow ==
  /\ active = 0
  /\ nodes' = <<>>
  /\ edges' = <<>>
  /\ groups' = <<>>
  /\ isRunning' = FALSE
  /\ currentNodeId' = NULL
  /\ workflowId' = NULL
  /\ workflowName' = NULL
  /\ saveDirectoryPath' = NULL
  /\ generationsPath' = NULL
  /\ lastSavedAt' = NULL
  /\ hasUnsavedChanges' = FALSE
  /\ incurredCost' = 0
  /\ UNCHANGED <<pausedAtNodeId, globalImageHistory, now, runs, active, calls, logging,
                 isSaving, saveCalls, saving, savedFile, costData, generationSaves, canvas>>

\* setWorkflowMetadata(id, name, path, generationsPath)
SetWorkflowMetadata(id, name, path, genPath) ==
  /\ active = 0
  /\ workflowId' = id
  /\ workflowName' = name
  /\ saveDirectoryPath' = path
  /\ generationsPath' = genPath
  /\ UNCHANGED <<store, now, runs, active, calls, logging, isSaving, lastSavedAt, saveCalls,
                 saving, savedFile,
                 costData, generationSaves, canvas>>

CostInit == InitStore(WithPauseAndLock(ChainWorkflow("photo"), {}, {}))

CostNext ==
  \/ \E cost \in Prices : AddIncurredCost(cost)
  \/ ResetIncurredCost
  \/ \E id \in WorkflowIds : LoadIncurredCost(id)
  \/ \E id \in WorkflowIds \cup {NULL} :
       LoadWorkflow(WithPauseAndLock(ChainWorkflow("photo"), {}, {}), id)
  \/ ClearWorkflow
  \/ \E id \in WorkflowIds : SetWorkflowMetadata(id, DocumentName, "/projects", NULL)

CostSpec == CostInit /\ [][CostNext]_vars

\* the entries of localStorage's cost map for the ids other than id
OtherCosts(allCosts, id) == {d \in allCosts : d.workflowId # id}

\* C25: an addIncurredCost or resetIncurredCost made with a workflow id set leaves
\* the entry of that id in the persisted map equal to incurredCost and the entries
\* of the other ids as they were; loadIncurredCost(id) and loadWorkflow of the id
\* set incurredCost to the entry of the id and change no entry; and no call
\* changes the entry of an id other than the current one
C25_CostKeptPerWorkflow ==
  [][/\ ((ResetIncurredCost \/ \E cost \in Prices : AddIncurredCost(cost))
           /\ ~Falsy(workflowId)) =>
          /\ \E d \in costData' : d.workflowId = workflowId /\ d.incurredCost = incurredCost'
          /\ LoadWorkflowCostData(costData', workflowId) = incurredCost'
          /\ OtherCosts(costData', workflowId) = OtherCosts(costData, workflowId)
     /\ \A id \in WorkflowIds :
          (LoadIncurredCost(id)
             \/ LoadWorkflow(WithPauseAndLock(ChainWorkflow("photo"), {}, {}), id)) =>
            /\ incurredCost' = LoadWorkflowCostData(costData, id)
            /\ costData' = costData
     /\ \A id \in WorkflowIds :
          id # workflowId => OtherCosts(costData', workflowId) = OtherCosts(costData, workflowId)
     /\ \A d \in costData', e \in costData' : d.workflowId = e.workflowId => d = e]_vars

\* both projects have a stored total, the totals differ, and the store shows the
\* total of the project that is open
C25_Witness ==
  /\ workflowId = "wf-2"
  /\ incurredCost = 134
  /\ [workflowId |-> "wf-1", incurredCost |-> 39] \in costData
  /\ [workflowId |-> "wf-2", incurredCost |-> 134] \in costData

\* the edges of the store that end at the text handle of the node
TextEdgesInto(nodeId) ==
  {k \in DOMAIN edges : edges[k].target = nodeId /\ edges[k].targetHandle = "text"}

\* C26: whatever connections are made through the canvas, every node has at most
\* one edge ending at its text handle
C26_SingleTextConnection ==
  \A k \in DOMAIN nodes : Cardinality(TextEdgesInto(nodes[k].id)) <= 1

-----------------------------------------------------------------------------
(* Generations saved to the generations folder of a project *)

\* a settlement of the save that fails the run, as if the save were awaited inside
\* the try of the node
SaveGenerationSettledAwaited(k, saved) ==
  /\ active = 0
  /\ k \in DOMAIN generationSaves
  /\ generationSaves[k].status = "pending"
  /\ generationSaves' = [generationSaves EXCEPT ![k].status = IF saved THEN "saved" ELSE "failed"]
  /\ isRunning' = (isRunning /\ saved)
  /\ UNCHANGED <<nodes, edges, groups, currentNodeId, pausedAtNodeId, globalImageHistory,
                 incurredCost, hasUnsavedChanges, now, runs, active, calls, logging, project,
                 costData, canvas>>

\* the promise of fetch("/api/save-generation") settles: fulfilled, with nothing
\* reading the answer, or rejected into .catch((err) => console.error(...))
SaveGenerationSettled(k, saved) ==
  /\ active = 0
  /\ k \in DOMAIN generationSaves
  /\ generationSaves[k].status = "pending"
  /\ generationSaves' = [generationSaves EXCEPT ![k].status = IF saved THEN "saved" ELSE "failed"]
  /\ UNCHANGED <<store, now, runs, active, calls, logging, project, costData, canvas>>

\* the chain workflow loaded in a project with a generations folder
ArtifactInit ==
  LET w == WithPauseAndLock(ChainWorkflow("photo"), {}, {})
  IN InitProject(w, "wf-1", "/projects", "/projects/generations", {},
                 [nodes |-> w.nodes, edges |-> w.edges])

ArtifactNext ==
  \/ ExecuteWorkflow(NULL)
  \/ \E r \in Runs : LoopExit(r)
  \/ \E r \in Runs : ExecutePassThrough(r)
  \/ \E r \in Runs : ExecuteNanoBanana(r)
  \/ \E r \in Runs : \E resp \in GenerateResponses(r) : GenerateResponse(r, resp)
  \/ \E k \in 1..(2 * MaxCalls) : \E saved \in BOOLEAN : SaveGenerationSettled(k, saved)

ArtifactSpec == ArtifactInit /\ [][ArtifactNext]_vars

\* the runs started after run r that visited the node
LaterVisits(r, nodeId) ==
  {q \in DOMAIN runs : q > r /\ nodeId \in SeqToSet(runs[q].executed)}

\* C27: the settlement of a generation's save, failed or not, changes nothing of
\* the store, of the runs or of the stored cost; every successful generation has
\* asked for one save and accrued its cost; a node a run generated stays complete
\* with its output image and a history item whatever became of the save, until a
\* later run visits it; and a run fails only at a node it did not generate
C27_SaveFailureIsHarmless ==
  /\ [][\A k \in DOMAIN generationSaves :
          generationSaves'[k].status # generationSaves[k].status =>
            /\ generationSaves[k].status = "pending"
            /\ UNCHANGED <<store, runs, costData, now>>]_vars
  /\ [](/\ Len(generationSaves) = Len(globalImageHistory)
        /\ incurredCost =
             Len(globalImageHistory) * CalculateGenerationCost("nano-banana-pro", "1K")
        /\ \A r \in DOMAIN runs :
             /\ \A k \in DOMAIN runs[r].generated :
                  LET node == GetNodeById(nodes, runs[r].generated[k])
                  IN LaterVisits(r, node.id) = {} =>
                       /\ node.data.status = "complete"
                       /\ ~Falsy(node.data.outputImage)
                       /\ node.data.imageHistory # <<>>
             /\ runs[r].outcome = "failed" =>
                  runs[r].executed[Len(runs[r].executed)] \notin SeqToSet(runs[r].generated))

\* the save of the first generation of a run has failed, the first generator is
\* complete with the image and its cost, and the run has gone on to the second
\* generator and completed
C27_Witness ==
  \E r \in DOMAIN runs :
    /\ runs[r].outcome = "completed"
    /\ runs[r].generated = <<"nanoBanana-1", "nanoBanana-2">>
    /\ Len(generationSaves) = 2
    /\ generationSaves[1].status = "failed"
    /\ generationSaves[2].status = "pending"
    /\ GetNodeById(nodes, "nanoBanana-1").data.status = "complete"
    /\ GetNodeById(nodes, "nanoBanana-1").data.outputImage = generationSaves[1].image
    /\ incurredCost = 2 * CalculateGenerationCost("nano-banana-pro", "1K")

-----------------------------------------------------------------------------
(* Runs whose continuations are scheduled and whose calls are answered *)

LiveWorkflows ==
  {WithPauseAndLock(ChainWorkflow("photo"), paused, {}) : paused \in {{}, {3}}}
    \cup {WithPauseAndLock(TextWorkflow, {}, locked) : locked \in {{}, {"llmGenerate-1"}}}
    \cup {WithPauseAndLock(SplitWorkflow(TRUE), {}, {})}

LiveInit == \E w \in LiveWorkflows : InitStore(w)

\* the steps of call r: the tasks of its loop and the settlements of its awaits
RunSteps(r) ==
  \/ LoopExit(r)
  \/ Pause(r)
  \/ SkipLocked(r)
  \/ ExecutePassThrough(r)
  \/ ExecuteAnnotation(r)
  \/ ExecuteOutput(r)
  \/ ExecuteNanoBanana(r)
  \/ ExecuteLLMGenerate(r)
  \/ ExecuteSplitGrid(r)
  \/ SplitLoopSkip(r)
  \/ SplitLoopAwait(r)
  \/ SplitLoopEnd(r)
  \/ RegenerateNanoBanana(r)
  \/ RegenerateLLMGenerate(r)
  \/ RegenerateSplitGrid(r)
  \/ RegenerateOther(r)
  \/ \E resp \in GenerateResponses(r) : GenerateResponse(r, resp)
  \/ \E resp \in GenerateResponses(r) : RegenerateGenerateResponse(r, resp)
  \/ \E resp \in LLMResponses(r) : LLMResponse(r, resp)
  \/ \E resp \in LLMResponses(r) : RegenerateLLMResponse(r, resp)
  \/ \E resp \in SplitResponses(r) : SplitResponse(r, resp)
  \/ \E loaded \in BOOLEAN : ChildImageSettled(r, loaded)

\* the event loop runs the continuation of a call once the promise it awaits has
\* settled, and every request made is answered
LiveSpec == LiveInit /\ [][Next]_vars /\ \A r \in Runs : WF_vars(RunSteps(r))

\* call r ends in this step
EndsNow(r) ==
  /\ r \in DOMAIN runs'
  /\ runs'[r].pc = "done"
  /\ r \notin DOMAIN runs \/ runs[r].pc # "done"

\* the nodes run R has visited are distinct and, in a workflow run, lie at
\* increasing positions of its order
VisitsEachOnceInOrder(R) ==
  /\ \A j \in DOMAIN R.executed, k \in DOMAIN R.executed :
       j < k => R.executed[j] # R.executed[k]
  /\ R.op = "executeWorkflow" =>
       \A j \in DOMAIN R.executed, k \in DOMAIN R.executed :
         j < k => /\ FindIndex(R.sorted, R.executed[j]) # 0
                  /\ FindIndex(R.sorted, R.executed[j]) < FindIndex(R.sorted, R.executed[k])

StatusOf(ns, nodeId) ==
  LET node == GetNodeById(ns, nodeId)
  IN IF "status" \in DOMAIN node.data THEN node.data.status ELSE "idle"

\* C29: a step of the engine that changes the status of a node to complete or to
\* error finds the node in status loading
C29_CompleteOrErrorOnlyFromLoading ==
  [][\A id \in NodeIds(nodes) \cap NodeIds(nodes') :
       (/\ StatusOf(nodes', id) \in {"complete", "error"}
        /\ StatusOf(nodes', id) # StatusOf(nodes, id)) => StatusOf(nodes, id) = "loading"]_vars

\* the ids of the nodes of the store this step changes
ChangedNodes == {nodes[k].id : k \in {j \in DOMAIN nodes : nodes'[j] # nodes[j]}}

\* the nodes the call with closure R may write while it is at its current node:
\* that node, and the child image sources when the node is a grid split
OwnNodes(R) ==
  IF Node(R).type = "splitGrid" THEN {Node(R).id} \cup ChildIds(Node(R)) ELSE {Node(R).id}

\* C30: no step of the engine adds or removes a node or changes a node's id, kind
\* or group; a step that changes node data is a step of a call that is at a node
\* and changes the data of that node only, unless the node is a grid split, which
\* may also change its child image sources; and what a call has written is, for
\* each node it visited that is not a grid split, that node alone
C30_OnlyOwnNodeChanges ==
  /\ [][/\ Len(nodes') = Len(nodes)
        /\ \A k \in DOMAIN nodes :
             /\ nodes'[k].id = nodes[k].id
             /\ nodes'[k].type = nodes[k].type
             /\ nodes'[k].groupId = nodes[k].groupId
        /\ ChangedNodes # {} =>
             \E r \in DOMAIN runs :
               /\ runs'[r] # runs[r]
               /\ ~AtEnd(runs[r])
               /\ Node(runs[r]).id \in SeqToSet(runs'[r].executed)
               /\ ChangedNodes \subseteq OwnNodes(runs[r])]_vars
  /\ [](\A r \in DOMAIN runs :
          runs[r].wrote \subseteq
            SeqToSet(runs[r].executed)
              \cup UNION {ChildIds(runs[r].sorted[k]) :
                            k \in {j \in DOMAIN runs[r].sorted :
                                     /\ runs[r].sorted[j].type = "splitGrid"
                                     /\ runs[r].sorted[j].id \in SeqToSet(runs[r].executed)}})

\* a run of the text workflow has completed: the text generator and the image
\* generator hold their outputs, and the prompt and the image source are as loaded
C30_Witness ==
  \E r \in DOMAIN runs :
    /\ runs[r].outcome = "completed"
    /\ runs[r].executed =
         <<"prompt-1", "llmGenerate-1", "imageInput-1", "annotation-1", "nanoBanana-1">>
    /\ runs[r].wrote = {"annotation-1", "llmGenerate-1", "nanoBanana-1"}
    /\ GetNodeById(nodes, "prompt-1").data.prompt = "describe"
    /\ GetNodeById(nodes, "imageInput-1").data.image = "photo"
    /\ ~Falsy(GetNodeById(nodes, "nanoBanana-1").data.outputImage)

-----------------------------------------------------------------------------
(* updateNodeData called with any id and patch *)

\* partial node data of the kinds the engine and the node components pass
Patches ==
  {[status |-> "loading", error |-> NULL],
   [status |-> "error", error |-> "Missing image or text input"],
   [outputImage |-> "edited", status |-> "complete"],
   [prompt |-> "draw a dog"],
   [image |-> NULL, filename |-> "cat.png"],
   <<>>}

\* updateNodeData(nodeId, data)
UpdateNodeDataCall(nodeId, data) ==
  /\ active = 0
  /\ edits < MaxEdits
  /\ edits' = edits + 1
  /\ nodes' = UpdateNodeData(nodes, nodeId, data)
  /\ hasUnsavedChanges' = TRUE
  /\ UNCHANGED <<edges, groups, isRunning, currentNodeId, pausedAtNodeId,
                 globalImageHistory, incurredCost, now, runs, active, calls, logging,
                 persistence, nodeIdCounter>>

UpdateInit == InitStore(WithPauseAndLock(ChainWorkflow("photo"), {}, {}))

UpdateNext ==
  \E nodeId \in NodeIds(nodes) \cup {"output-9"} : \E data \in Patches :
    UpdateNodeDataCall(nodeId, data)

UpdateSpec == UpdateInit /\ [][UpdateNext]_vars

\* node after is node before with the fields of the patch merged into its data
MergedInto(before, after, data) ==
  /\ after.id = before.id
  /\ after.type = before.type
  /\ after.groupId = before.groupId
  /\ DOMAIN after.data = DOMAIN before.data \cup DOMAIN data
  /\ \A f \in DOMAIN data : after.data[f] = data[f]
  /\ \A f \in DOMAIN before.data \ DOMAIN data : after.data[f] = before.data[f]

\* C31: updateNodeData(id, patch) gives the named node the values of the fields
\* listed in the patch and leaves its other fields and every other node as they
\* were; the node list keeps its length and order; hasUnsavedChanges becomes
\* true; and with an id that names no node, no node changes
C31_UpdateMerges ==
  [][\A nodeId \in NodeIds(nodes) \cup {"output-9"} : \A data \in Patches :
       UpdateNodeDataCall(nodeId, data) =>
         /\ Len(nodes') = Len(nodes)
         /\ \A k \in DOMAIN nodes :
              IF nodes[k].id = nodeId
              THEN MergedInto(nodes[k], nodes'[k], data)
              ELSE nodes'[k] = nodes[k]
         /\ nodeId \notin NodeIds(nodes) => nodes' = nodes
         /\ hasUnsavedChanges']_vars

\* after two calls the first generator has status loading and still holds its
\* output image and its history, the other nodes are as loaded, in the order
\* loaded, and the workflow is dirty
C31_Witness ==
  /\ edits = 2
  /\ hasUnsavedChanges
  /\ GetNodeById(nodes, "nanoBanana-1").data.status = "loading"
  /\ GetNodeById(nodes, "nanoBanana-1").data.outputImage = "kept"
  /\ Len(GetNodeById(nodes, "nanoBanana-1").data.imageHistory) = 1
  /\ GetNodeById(nodes, "prompt-1").data.prompt = "draw a cat"
  /\ GetNodeById(nodes, "imageInput-1").data.image = "photo"
  /\ [k \in DOMAIN nodes |-> nodes[k].id] =
       <<"nanoBanana-2", "nanoBanana-1", "prompt-1", "imageInput-1">>

-----------------------------------------------------------------------------
(* An annotation node fed by a generator *)

\* a generator whose image goes to an annotation node; the annotation node is as
\* created, or holds an image the user drew on, and is connected or not
AnnotationWorkflow(data, connected) ==
  [nodes |-> << MkNode("annotation-1", "annotation", data),
                MkNode("nanoBanana-1", "nanoBanana", <<>>),
                MkNode("prompt-1", "prompt", [prompt |-> "draw a cat"]),
                MkNode("imageInput-1", "imageInput", [image |-> "photo"]) >>,
   edges |-> << MkEdge("imageInput-1", "nanoBanana-1", "image"),
                MkEdge("prompt-1", "nanoBanana-1", "text") >>
               \o IF connected THEN << MkEdge("nanoBanana-1", "annotation-1", "image") >>
                  ELSE << >>]

AnnotationInit ==
  \E data \in {<<>>, [sourceImage |-> "sketch", annotations |-> <<"stroke">>,
                      outputImage |-> "drawn"]} :
    \E connected \in BOOLEAN :
      InitStore(WithPauseAndLock(AnnotationWorkflow(data, connected), {}, {}))

AnnotationNext ==
  \/ ExecuteWorkflow(NULL)
  \/ \E r \in Runs : LoopExit(r)
  \/ \E r \in Runs : ExecutePassThrough(r)
  \/ \E r \in Runs : ExecuteNanoBanana(r)
  \/ \E r \in Runs : ExecuteAnnotation(r)
  \/ \E r \in Runs : \E resp \in GenerateResponses(r) : GenerateResponse(r, resp)

AnnotationSpec == AnnotationInit /\ [][AnnotationNext]_vars

\* C32: a run that executes an annotation node with a resolved upstream image
\* sets the node's sourceImage to the first resolved image, and its outputImage
\* too unless the node holds annotations the user drew, and changes nothing else;
\* with no resolved image it changes no node; either way the run goes on
C32_AnnotationPassesThrough ==
  [][\A r \in Runs : EntersNow(r, "annotation") =>
       LET id == Node(runs[r]).id
           images == GetConnectedInputs(nodes, edges, id).images
           before == GetNodeById(nodes, id)
           after == GetNodeById(nodes', id)
       IN /\ runs'[r].pc = "loop"
          /\ runs'[r].i = runs[r].i + 1
          /\ isRunning' = isRunning
          /\ \A k \in DOMAIN nodes : nodes[k].id # id => nodes'[k] = nodes[k]
          /\ IF images = <<>>
             THEN after = before
             ELSE /\ after.data.sourceImage = images[1]
                  /\ after.data.outputImage =
                       IF before.data.annotations # <<>> THEN before.data.outputImage
                       ELSE images[1]
                  /\ after.data.annotations = before.data.annotations]_vars

-----------------------------------------------------------------------------
(* Grid splits of more than one cell *)

\* the id of the k-th child image source of the split node
ChildId(k) == "imageInput-" \o ToString(k + 1)

\* a sheet split into rows x cols cells, each with a child image source of its own
GridWorkflow(rows, cols) ==
  [nodes |-> << MkNode("imageInput-1", "imageInput", [image |-> "sheet"]),
                MkNode("splitGrid-1", "splitGrid",
                       [isConfigured |-> TRUE, gridRows |-> rows, gridCols |-> cols,
                        childNodeIds |-> [k \in 1..(rows * cols) |->
                                            [imageInput |-> ChildId(k)]]]) >>
               \o [k \in 1..(rows * cols) |-> MkNode(ChildId(k), "imageInput", <<>>)],
   edges |-> << MkEdge("imageInput-1", "splitGrid-1", "image") >>]

Grids == {<<2, 2>>, <<1, 3>>, <<3, 1>>}

GridInit ==
  \E grid \in Grids : InitStore(WithPauseAndLock(GridWorkflow(grid[1], grid[2]), {}, {}))

\* what splitWithDimensions settles with for the grid of the split node: the
\* cells in row-major order, the first cell alone, or an error
GridResponses ==
  LET data == GetNodeById(nodes, "splitGrid-1").data
  IN {Response("throw", "Error", "Failed to load image", FALSE, <<>>, NULL),
      Response("json", NULL, NULL, TRUE,
               [k \in 1..(data.gridRows * data.gridCols) |-> "cell-" \o ToString(k)], NULL),
      Response("json", NULL, NULL, TRUE, << "cell-1" >>, NULL)}

GridNext ==
  \/ ExecuteWorkflow(NULL)
  \/ RegenerateNode("splitGrid-1")
  \/ \E r \in Runs : LoopExit(r)
  \/ \E r \in Runs : ExecutePassThrough(r)
  \/ \E r \in Runs : ExecuteSplitGrid(r)
  \/ \E r \in Runs : RegenerateSplitGrid(r)
  \/ \E r \in Runs : \E resp \in GridResponses : SplitResponse(r, resp)
  \/ \E r \in Runs : SplitLoopSkip(r)
  \/ \E r \in Runs : SplitLoopAwait(r)
  \/ \E r \in Runs : \E loaded \in BOOLEAN : ChildImageSettled(r, loaded)
  \/ \E r \in Runs : SplitLoopEnd(r)

GridSpec == GridInit /\ [][GridNext]_vars

\* C33: with gridCols = C, the cell of 0-based row-major index i is found only in
\* the i-th child image source, under the filename split-<r>-<c>.png with
\* r = i div C + 1 and c = i mod C + 1; and two cells that were written lie in
\* different children under different filenames
C33_CellsToChildren ==
  LET data == GetNodeById(nodes, "splitGrid-1").data
      C == data.gridCols
      Child(i) == GetNodeById(nodes, data.childNodeIds[i + 1].imageInput)
      Cells == 0..(Len(data.childNodeIds) - 1)
      Written == {i \in Cells : Child(i).data.image # NULL}
  IN /\ \A k \in DOMAIN nodes : \A i \in Cells :
          (nodes[k].type = "imageInput" /\ nodes[k].data.image = "cell-" \o ToString(i + 1))
            => nodes[k].id = data.childNodeIds[i + 1].imageInput
     /\ \A i \in Written :
          /\ Child(i).data.image = "cell-" \o ToString(i + 1)
          /\ Child(i).data.filename =
               "split-" \o ToString((i \div C) + 1) \o "-" \o ToString((i % C) + 1) \o ".png"
     /\ \A i \in Written, j \in Written :
          i # j => /\ Child(i).id # Child(j).id
                   /\ Child(i).data.filename # Child(j).data.filename
     /\ GetNodeById(nodes, "imageInput-1").data.image = "sheet"

\* a 2 x 2 split has completed: the four children hold the four cells under the
\* filenames of their rows and columns
C33_Witness ==
  /\ GetNodeById(nodes, "splitGrid-1").data.gridCols = 2
  /\ GetNodeById(nodes, "splitGrid-1").data.gridRows = 2
  /\ GetNodeById(nodes, "splitGrid-1").data.status = "complete"
  /\ [k \in 1..4 |-> GetNodeById(nodes, ChildId(k)).data.image] =
       <<"cell-1", "cell-2", "cell-3", "cell-4">>
  /\ [k \in 1..4 |-> GetNodeById(nodes, ChildId(k)).data.filename] =
       <<"split-1-1.png", "split-1-2.png", "split-2-1.png", "split-2-2.png">>

\* the nodes run R visited before it visited the node
VisitedBefore(R, nodeId) ==
  {R.executed[j] : j \in {i \in DOMAIN R.executed :
                            \E k \in DOMAIN R.executed : i < k /\ R.executed[k] = nodeId}}

\* C34: the inputs a run resolved for a node hold, for every image edge from an
\* image generator the run visited before, the image that generator produced in
\* this run, and, when the node's text edge comes from a text generator the run
\* visited before, the text that generator produced in this run
C34_ReceivesOutputOfThisRun ==
  \A r \in DOMAIN runs :
    runs[r].op = "executeWorkflow" =>
      \A k \in DOMAIN runs[r].resolved :
        LET inputs == runs[r].resolved[k]
        IN \A j \in DOMAIN edges :
             (/\ edges[j].target = inputs.id
              /\ edges[j].source \in VisitedBefore(runs[r], inputs.id)) =>
               LET source == GetNodeById(runs[r].nodes, edges[j].source)
               IN /\ (source.type = "nanoBanana" /\ edges[j].targetHandle = "image") =>
                       "generated-" \o ToString(r) \in SeqToSet(inputs.images)
                  /\ (source.type = "llmGenerate" /\ edges[j].targetHandle = "text") =>
                       inputs.text = "text-" \o ToString(r)

-----------------------------------------------------------------------------
(* A generator fed by another, with an unrelated generator between them in the order *)

RelayWorkflow ==
  [nodes |-> << MkNode("imageInput-1", "imageInput", [image |-> "photo"]),
                MkNode("prompt-1", "prompt", [prompt |-> "draw a cat"]),
                MkNode("nanoBanana-1", "nanoBanana", <<>>),
                MkNode("nanoBanana-2", "nanoBanana", <<>>),
                MkNode("nanoBanana-3", "nanoBanana", <<>>) >>,
   edges |-> << MkEdge("imageInput-1", "nanoBanana-1", "image"),
                MkEdge("prompt-1", "nanoBanana-1", "text"),
                MkEdge("imageInput-1", "nanoBanana-2", "image"),
                MkEdge("prompt-1", "nanoBanana-2", "text"),
                MkEdge("nanoBanana-1", "nanoBanana-3", "image"),
                MkEdge("prompt-1", "nanoBanana-3", "text") >>]

RelayInit == InitStore(WithPauseAndLock(RelayWorkflow, {}, {}))

RelayNext ==
  \/ ExecuteWorkflow(NULL)
  \/ StopWorkflow
  \/ \E r \in Runs : LoopExit(r)
  \/ \E r \in Runs : ExecutePassThrough(r)
  \/ \E r \in Runs : ExecuteNanoBanana(r)
  \/ \E r \in Runs : \E resp \in GenerateResponses(r) : GenerateResponse(r, resp)

RelaySpec == RelayInit /\ [][RelayNext]_vars

-----------------------------------------------------------------------------
\* C35: the controller is never running and paused at once: while pausedAtNodeId
\* holds a node id, isRunning is false.
C35_NeverRunningAndPaused == pausedAtNodeId # NULL => ~isRunning

\* C36: currentNodeId holds a node id only while isRunning is true.
C36_CurrentNodeOnlyWhileRunning == currentNodeId # NULL => isRunning

-----------------------------------------------------------------------------
(* Runs of the chain while the document is loaded again or cleared *)

ReloadWorkflow == WithPauseAndLock(ChainWorkflow("photo"), {3}, {})

ReloadInit == InitStore(ReloadWorkflow)

ReloadNext ==
  \/ \E e \in {NULL, "nanoBanana-2"} : ExecuteWorkflow(e)
  \/ RegenerateNode("nanoBanana-1")
  \/ StopWorkflow
  \/ LoadWorkflow(ReloadWorkflow, NULL)
  \/ ClearWorkflow
  \/ \E r \in Runs : LoopExit(r)
  \/ \E r \in Runs : Pause(r)
  \/ \E r \in Runs : ExecutePassThrough(r)
  \/ \E r \in Runs : ExecuteNanoBanana(r)
  \/ \E r \in Runs : RegenerateNanoBanana(r)
  \/ \E r \in Runs : \E resp \in GenerateResponses(r) : GenerateResponse(r, resp)
  \/ \E r \in Runs : \E resp \in GenerateResponses(r) : RegenerateGenerateResponse(r, resp)

ReloadSpec == ReloadInit /\ [][ReloadNext]_vars

\* C36, its case: a call that has made a node current and awaits its answer, with
\* the document cleared since: nothing is current and nothing runs
C36_Witness ==
  /\ nodes = <<>>
  /\ ~isRunning
  /\ currentNodeId = NULL
  /\ \E r \in DOMAIN runs :
       /\ Alive(runs[r])
       /\ Len(runs[r].executed) > 0
       /\ ~runs[r].stopped

-----------------------------------------------------------------------------
\* the ids of the nodes of LiveSpec's documents that call a service or split a grid:
\* the node kinds whose case writes status "loading"
LiveNodeIds ==
  UNION {{w.nodes[k].id : k \in {j \in DOMAIN w.nodes :
                                   w.nodes[j].type \in {"nanoBanana", "llmGenerate", "splitGrid"}}} :
           w \in LiveWorkflows}

Loading(nodeId) == nodeId \in NodeIds(nodes) /\ StatusOf(nodes, nodeId) = "loading"

CompleteOrError(nodeId) ==
  nodeId \in NodeIds(nodes) /\ StatusOf(nodes, nodeId) \in {"complete", "error"}

\* C37: with every service call and grid split settling, a node in status loading
\* comes to status complete or error, whether or not stopWorkflow was called while
\* the call was in flight.
C37_LoadingEnds ==
  \A nodeId \in LiveNodeIds :
    Loading(nodeId) ~> CompleteOrError(nodeId)

\* C37, its case: a run stopped while its generator was loading, whose answer then
\* arrived and completed the node
C37_Witness ==
  \E r \in DOMAIN runs :
    /\ runs[r].stopped
    /\ runs[r].executedAtStop > 0
    /\ LET nodeId == runs[r].executed[runs[r].executedAtStop]
       IN /\ nodeId \in SeqToSet(runs[r].generated)
          /\ StatusOf(nodes, nodeId) = "complete"

-----------------------------------------------------------------------------
\* the loop of run r stands at a node of a locked group that a pause edge comes into
AtLockedPausedNode(r) ==
  /\ r \in DOMAIN runs
  /\ active = r
  /\ runs[r].op = "executeWorkflow"
  /\ runs[r].pc = "loop"
  /\ ~AtEnd(runs[r])
  /\ isRunning
  /\ LET node == Node(runs[r])
     IN /\ node.groupId # NULL
        /\ node.groupId \in DOMAIN runs[r].groups
        /\ runs[r].groups[node.groupId].locked
        /\ \E k \in DOMAIN runs[r].edges :
             runs[r].edges[k].target = node.id /\ runs[r].edges[k].hasPause

ResumedFromNode(R) == R.isResuming /\ R.startFromNodeId = Node(R).id

\* C38: a run whose loop reaches a node that is in a locked group and has an
\* incoming pause edge pauses there (pausedAtNodeId becomes the node, the run ends
\* paused) without executing or skipping it; a run resumed from that node moves past
\* it and stays running, and the node is not executed and no node is written.
C38_PauseBeforeLockedCheck ==
  [][\A r \in Runs :
       AtLockedPausedNode(r) =>
         /\ nodes' = nodes
         /\ runs'[r].executed = runs[r].executed
         /\ IF ResumedFromNode(runs[r])
            THEN /\ runs'[r].i = runs[r].i + 1
                 /\ runs'[r].pc = "loop"
                 /\ isRunning'
                 /\ pausedAtNodeId' = pausedAtNodeId
            ELSE /\ pausedAtNodeId' = Node(runs[r]).id
                 /\ ~isRunning'
                 /\ runs'[r].i = runs[r].i
                 /\ runs'[r].outcome = "paused"]_vars

\* C38, its case: a run paused at a locked node, and the run resumed from it has
\* moved past the node without executing it
C38_Witness ==
  \E r, q \in DOMAIN runs :
    /\ r < q
    /\ runs[r].outcome = "paused"
    /\ runs[q].isResuming
    /\ runs[q].startFromNodeId = runs[r].sorted[runs[r].i].id
    /\ runs[q].pausedAtCall = runs[q].startFromNodeId
    /\ runs[q].i > runs[q].startIndex
    /\ runs[q].startFromNodeId \notin SeqToSet(runs[q].executed)
    /\ LET node == runs[q].sorted[runs[q].startIndex]
       IN /\ node.id = runs[q].startFromNodeId
          /\ node.groupId # NULL
          /\ runs[q].groups[node.groupId].locked
          /\ \E k \in DOMAIN runs[q].edges :
               runs[q].edges[k].target = node.id /\ runs[q].edges[k].hasPause

-----------------------------------------------------------------------------
(* Saves of a project, asked for by hand and by the timer *)

\* setWorkflowName(name)
SetWorkflowName(name) ==
  /\ active = 0
  /\ workflowName' = name
  /\ hasUnsavedChanges' = TRUE
  /\ UNCHANGED <<nodes, edges, groups, isRunning, currentNodeId, pausedAtNodeId,
                 globalImageHistory, incurredCost, now, runs, active, calls, logging, canvas,
                 workflowId, saveDirectoryPath, isSaving, lastSavedAt, saveCalls, saving,
                 savedFile, generationsPath, costData, generationSaves>>

\* the chain loaded from a file without an id, from a file with an id that has no
\* save configuration, or from a file of a project with a save directory
FileInit ==
  \E config \in {<<NULL, NULL>>, <<"wf-1", NULL>>, <<"wf-1", "/projects">>} :
    LET w == WithPauseAndLock(ChainWorkflow("photo"), {}, {})
    IN InitProject(w, config[1], config[2], NULL, {}, [nodes |-> w.nodes, edges |-> w.edges])

FileNext ==
  \/ SaveToFile
  \/ AutoSave
  \/ \E k \in 1..MaxSaves : \E result \in {"success", "failure", "throw"} :
       SaveResponse(k, result)
  \/ \E name \in {"", DocumentName} : SetWorkflowName(name)
  \/ SetWorkflowMetadata("wf-1", DocumentName, "/projects", NULL)
  \/ \E nodeId \in {"prompt-1"} : \E data \in Patches : UpdateNodeDataCall(nodeId, data)

FileSpec == FileInit /\ [][FileNext]_vars

\* the store as saveToFile can change it, with the file on disk
SaveState == <<isSaving, hasUnsavedChanges, lastSavedAt, savedFile, saving>>

CannotSave == Falsy(workflowId) \/ Falsy(workflowName) \/ Falsy(saveDirectoryPath)

\* C39: no request in flight means isSaving is false; a saveToFile call made with
\* the id, the name or the directory missing changes nothing, and any other sets
\* isSaving; the answer of a request sets isSaving false, and clears
\* hasUnsavedChanges and sets lastSavedAt when it is a success and leaves both, and
\* the file on disk, as they are when it is a failure or an exception; nothing else
\* sets lastSavedAt or clears hasUnsavedChanges; the timer calls saveToFile only
\* with isSaving false.
C39_SaveReleasesFlag ==
  /\ [](saving = <<>> => ~isSaving)
  /\ [][/\ (saveCalls' # saveCalls) =>
             IF CannotSave
             THEN UNCHANGED <<SaveState, store, now>>
             ELSE /\ isSaving'
                  /\ saving' = Append(saving, WorkflowFile)
                  /\ UNCHANGED <<hasUnsavedChanges, lastSavedAt, savedFile>>
        /\ \A k \in DOMAIN saving :
             /\ SaveResponse(k, "success") =>
                  /\ ~isSaving'
                  /\ ~hasUnsavedChanges'
                  /\ lastSavedAt' = Timestamp(now)
                  /\ savedFile' = saving[k]
             /\ (SaveResponse(k, "failure") \/ SaveResponse(k, "throw")) =>
                  /\ ~isSaving'
                  /\ UNCHANGED <<hasUnsavedChanges, lastSavedAt, savedFile>>
        /\ (lastSavedAt' # lastSavedAt \/ (hasUnsavedChanges /\ ~hasUnsavedChanges')) =>
             \E k \in DOMAIN saving : SaveResponse(k, "success")
        /\ (isSaving /\ ~isSaving') => Len(saving') < Len(saving)
        /\ AutoSave => ~isSaving]_vars

\* C39, its case: of two requests made one over the other, one has failed and the
\* other is in flight: the flag is released, nothing is marked as saved
C39_Witness ==
  /\ saveCalls = 2
  /\ Len(saving) = 1
  /\ ~isSaving
  /\ hasUnsavedChanges
  /\ lastSavedAt = NULL

====
